---- MODULE Spec2Model ----
(***************************************************************************)
(* A model of github.com/elastic/lunes (lunes.go): Translate, the helpers  *)
(* it calls (lookup, writeLayoutValue, nextNonSpaceValue,                  *)
(* writeNextNonSpaceValue, startsWithLowerCase) and Parse.                 *)
(*                                                                         *)
(* Go strings are byte strings: a string is modelled as a sequence of      *)
(* byte values 0..255 ("Mon" is <<77, 111, 110>>).  Go offsets are         *)
(* 0-based; the model keeps the 0-based offsets of the code and reads      *)
(* byte i of s as s[i + 1].                                                *)
(***************************************************************************)
EXTENDS Integers, Sequences, FiniteSets, TLC

(***************************************************************************)
(* Bytes, runes and the standard-library functions the code calls.         *)
(***************************************************************************)

\* s[from:to] of Go (0-based, to exclusive), for 0 <= from <= to <= len(s).
Slice(s, from, to) == SubSeq(s, from + 1, to)

\* s[from:] of Go.
SliceFrom(s, from) == SubSeq(s, from + 1, Len(s))

\* unicode.IsSpace(rune(b)) for a byte b: the Latin-1 white space of Go
\* ('\t', '\n', '\v', '\f', '\r', ' ', U+0085 NEL, U+00A0 NBSP).
IsSpace(b) == b \in {9, 10, 11, 12, 13, 32, 133, 160}

\* The letters of Latin Extended-A (U+0100..U+017F) that come in pairs, the
\* upper-case one first: even/odd code points, but odd/even in
\* U+0139..U+0148 and U+0179..U+017E.
UpperOfPair(r) ==
    \/ r \in (256..303) \cup (306..311) \cup (330..375) /\ r % 2 = 0
    \/ r \in (313..328) \cup (377..382) /\ r % 2 = 1

LowerOfPair(r) ==
    \/ r \in (256..303) \cup (306..311) \cup (330..375) /\ r % 2 = 1
    \/ r \in (313..328) \cup (377..382) /\ r % 2 = 0

\* unicode.ToUpper(r) for a rune r below U+0180.
ToUpper(r) ==
    IF r >= 97 /\ r <= 122 THEN r - 32
    ELSE IF r >= 224 /\ r <= 254 /\ r # 247 THEN r - 32
    ELSE IF r = 181 THEN 924
    ELSE IF r = 255 THEN 376
    ELSE IF r = 305 THEN 73
    ELSE IF r = 383 THEN 83
    ELSE IF LowerOfPair(r) THEN r - 1
    ELSE r

\* unicode.ToLower(r) for a rune r below U+0180.
ToLower(r) ==
    IF r >= 65 /\ r <= 90 THEN r + 32
    ELSE IF r >= 192 /\ r <= 222 /\ r # 215 THEN r + 32
    ELSE IF r = 304 THEN 105
    ELSE IF r = 376 THEN 255
    ELSE IF UpperOfPair(r) THEN r + 1
    ELSE r

\* The UTF-8 encoding of the rune r < U+0800: what strings.Builder.WriteRune(r)
\* appends and what the conversion string(r) yields.
Utf8(r) ==
    IF r < 128 THEN <<r>>
    ELSE <<192 + (r \div 64), 128 + (r % 64)>>

\* strings.Repeat(" ", n)
Spaces(n) == [i \in 1..n |-> 32]

\* utf8.DecodeRuneInString(s[i:]) for strings of 1- and 2-byte sequences:
\* the rune and its width; an invalid byte decodes to U+FFFD, width 1.
DecodeRune(s, i) ==
    LET b == s[i + 1] IN
    IF b < 128 THEN [r |-> b, size |-> 1]
    ELSE IF b >= 194 /\ b <= 223 /\ i + 1 < Len(s)
            /\ s[i + 2] >= 128 /\ s[i + 2] <= 191
         THEN [r |-> (b - 192) * 64 + (s[i + 2] - 128), size |-> 2]
    ELSE [r |-> 65533, size |-> 1]

\* The runes of s from byte offset i on.
RECURSIVE Runes(_, _)
Runes(s, i) ==
    IF i >= Len(s) THEN <<>>
    ELSE LET d == DecodeRune(s, i) IN <<d.r>> \o Runes(s, i + d.size)

\* A representative of the orbit of r under unicode.SimpleFold, for a rune
\* below U+0180: the lower-case letter; U+0130 and U+0131 (the dotted
\* capital and the dotless small i) fold to nothing but themselves, and
\* U+017F (long s) folds with 's'.
FoldRune(r) ==
    IF r \in {304, 305} THEN r
    ELSE IF r = 383 THEN 115
    ELSE IF r < 384 THEN ToLower(r)
    ELSE r

\* strings.EqualFold(s, t): the same runes under simple case folding.
EqualFold(s, t) ==
    LET Same(rs, rt) ==
            /\ Len(rs) = Len(rt)
            /\ \A k \in 1..Len(rs) : FoldRune(rs[k]) = FoldRune(rt[k])
    IN  Same(Runes(s, 0), Runes(t, 0))

\* The UTF-8 encoding of a sequence of runes.
RECURSIVE EncodeRunes(_)
EncodeRunes(rs) ==
    IF rs = <<>> THEN <<>> ELSE Utf8(Head(rs)) \o EncodeRunes(Tail(rs))

\* strings.ToUpper / strings.ToLower (used to build the case variants of
\* the inputs): every rune mapped by unicode.ToUpper / unicode.ToLower.
MapCase(s, up) ==
    LET Mapped(rs) ==
            EncodeRunes([k \in 1..Len(rs) |-> IF up THEN ToUpper(rs[k]) ELSE ToLower(rs[k])])
    IN  Mapped(Runes(s, 0))

StringsToUpper(s) == MapCase(s, TRUE)
StringsToLower(s) == MapCase(s, FALSE)

(***************************************************************************)
(* The canonical tables (lunes.go) and the locales of the model.            *)
(***************************************************************************)

longDayNamesStd ==
    << <<83, 117, 110, 100, 97, 121>>,    \* "Sunday"
       <<77, 111, 110, 100, 97, 121>>,    \* "Monday"
       <<84, 117, 101, 115, 100, 97, 121>>,    \* "Tuesday"
       <<87, 101, 100, 110, 101, 115, 100, 97, 121>>,    \* "Wednesday"
       <<84, 104, 117, 114, 115, 100, 97, 121>>,    \* "Thursday"
       <<70, 114, 105, 100, 97, 121>>,    \* "Friday"
       <<83, 97, 116, 117, 114, 100, 97, 121>> >>    \* "Saturday"

shortDayNamesStd ==
    << <<83, 117, 110>>,    \* "Sun"
       <<77, 111, 110>>,    \* "Mon"
       <<84, 117, 101>>,    \* "Tue"
       <<87, 101, 100>>,    \* "Wed"
       <<84, 104, 117>>,    \* "Thu"
       <<70, 114, 105>>,    \* "Fri"
       <<83, 97, 116>> >>    \* "Sat"

shortMonthNamesStd ==
    << <<74, 97, 110>>,    \* "Jan"
       <<70, 101, 98>>,    \* "Feb"
       <<77, 97, 114>>,    \* "Mar"
       <<65, 112, 114>>,    \* "Apr"
       <<77, 97, 121>>,    \* "May"
       <<74, 117, 110>>,    \* "Jun"
       <<74, 117, 108>>,    \* "Jul"
       <<65, 117, 103>>,    \* "Aug"
       <<83, 101, 112>>,    \* "Sep"
       <<79, 99, 116>>,    \* "Oct"
       <<78, 111, 118>>,    \* "Nov"
       <<68, 101, 99>> >>    \* "Dec"

longMonthNamesStd ==
    << <<74, 97, 110, 117, 97, 114, 121>>,    \* "January"
       <<70, 101, 98, 114, 117, 97, 114, 121>>,    \* "February"
       <<77, 97, 114, 99, 104>>,    \* "March"
       <<65, 112, 114, 105, 108>>,    \* "April"
       <<77, 97, 121>>,    \* "May"
       <<74, 117, 110, 101>>,    \* "June"
       <<74, 117, 108, 121>>,    \* "July"
       <<65, 117, 103, 117, 115, 116>>,    \* "August"
       <<83, 101, 112, 116, 101, 109, 98, 101, 114>>,    \* "September"
       <<79, 99, 116, 111, 98, 101, 114>>,    \* "October"
       <<78, 111, 118, 101, 109, 98, 101, 114>>,    \* "November"
       <<68, 101, 99, 101, 109, 98, 101, 114>> >>    \* "December"

dayPeriodsStd ==
    << <<65, 77>>,    \* "AM"
       <<80, 77>> >>    \* "PM"
\* A Spanish locale (a Locale implementation holding these five tables).
EsShortDay ==
    << <<100, 111, 109>>,    \* "dom"
       <<108, 117, 110>>,    \* "lun"
       <<109, 97, 114>>,    \* "mar"
       <<109, 105, 195, 169>>,    \* "mié"
       <<106, 117, 101>>,    \* "jue"
       <<118, 105, 101>>,    \* "vie"
       <<115, 195, 161, 98>> >>    \* "sáb"

EsLongDay ==
    << <<100, 111, 109, 105, 110, 103, 111>>,    \* "domingo"
       <<108, 117, 110, 101, 115>>,    \* "lunes"
       <<109, 97, 114, 116, 101, 115>>,    \* "martes"
       <<109, 105, 195, 169, 114, 99, 111, 108, 101, 115>>,    \* "miércoles"
       <<106, 117, 101, 118, 101, 115>>,    \* "jueves"
       <<118, 105, 101, 114, 110, 101, 115>>,    \* "viernes"
       <<115, 195, 161, 98, 97, 100, 111>> >>    \* "sábado"

EsShortMonth ==
    << <<101, 110, 101>>,    \* "ene"
       <<102, 101, 98>>,    \* "feb"
       <<109, 97, 114>>,    \* "mar"
       <<97, 98, 114>>,    \* "abr"
       <<109, 97, 121>>,    \* "may"
       <<106, 117, 110>>,    \* "jun"
       <<106, 117, 108>>,    \* "jul"
       <<97, 103, 111>>,    \* "ago"
       <<115, 101, 112, 116>>,    \* "sept"
       <<111, 99, 116>>,    \* "oct"
       <<110, 111, 118>>,    \* "nov"
       <<100, 105, 99>> >>    \* "dic"

EsLongMonth ==
    << <<101, 110, 101, 114, 111>>,    \* "enero"
       <<102, 101, 98, 114, 101, 114, 111>>,    \* "febrero"
       <<109, 97, 114, 122, 111>>,    \* "marzo"
       <<97, 98, 114, 105, 108>>,    \* "abril"
       <<109, 97, 121, 111>>,    \* "mayo"
       <<106, 117, 110, 105, 111>>,    \* "junio"
       <<106, 117, 108, 105, 111>>,    \* "julio"
       <<97, 103, 111, 115, 116, 111>>,    \* "agosto"
       <<115, 101, 112, 116, 105, 101, 109, 98, 114, 101>>,    \* "septiembre"
       <<111, 99, 116, 117, 98, 114, 101>>,    \* "octubre"
       <<110, 111, 118, 105, 101, 109, 98, 114, 101>>,    \* "noviembre"
       <<100, 105, 99, 105, 101, 109, 98, 114, 101>> >>    \* "diciembre"

EsDayPeriods ==
    << <<97, 46, 109, 46>>,    \* "a.m."
       <<112, 46, 109, 46>> >>    \* "p.m."

\* A Turkish locale: letters of Latin Extended-A, the dotless i, and week
\* days that begin with another week day ("Pazar", "Pazartesi").
TrShortDay ==
    << <<80, 97, 122>>,    \* "Paz"
       <<80, 122, 116>>,    \* "Pzt"
       <<83, 97, 108>>,    \* "Sal"
       <<195, 135, 97, 114>>,    \* "Çar"
       <<80, 101, 114>>,    \* "Per"
       <<67, 117, 109>>,    \* "Cum"
       <<67, 109, 116>> >>    \* "Cmt"

TrLongDay ==
    << <<80, 97, 122, 97, 114>>,    \* "Pazar"
       <<80, 97, 122, 97, 114, 116, 101, 115, 105>>,    \* "Pazartesi"
       <<83, 97, 108, 196, 177>>,    \* "Salı"
       <<195, 135, 97, 114, 197, 159, 97, 109, 98, 97>>,    \* "Çarşamba"
       <<80, 101, 114, 197, 159, 101, 109, 98, 101>>,    \* "Perşembe"
       <<67, 117, 109, 97>>,    \* "Cuma"
       <<67, 117, 109, 97, 114, 116, 101, 115, 105>> >>    \* "Cumartesi"

TrShortMonth ==
    << <<79, 99, 97>>,    \* "Oca"
       <<197, 158, 117, 98>>,    \* "Şub"
       <<77, 97, 114>>,    \* "Mar"
       <<78, 105, 115>>,    \* "Nis"
       <<77, 97, 121>>,    \* "May"
       <<72, 97, 122>>,    \* "Haz"
       <<84, 101, 109>>,    \* "Tem"
       <<65, 196, 159, 117>>,    \* "Ağu"
       <<69, 121, 108>>,    \* "Eyl"
       <<69, 107, 105>>,    \* "Eki"
       <<75, 97, 115>>,    \* "Kas"
       <<65, 114, 97>> >>    \* "Ara"

TrLongMonth ==
    << <<79, 99, 97, 107>>,    \* "Ocak"
       <<197, 158, 117, 98, 97, 116>>,    \* "Şubat"
       <<77, 97, 114, 116>>,    \* "Mart"
       <<78, 105, 115, 97, 110>>,    \* "Nisan"
       <<77, 97, 121, 196, 177, 115>>,    \* "Mayıs"
       <<72, 97, 122, 105, 114, 97, 110>>,    \* "Haziran"
       <<84, 101, 109, 109, 117, 122>>,    \* "Temmuz"
       <<65, 196, 159, 117, 115, 116, 111, 115>>,    \* "Ağustos"
       <<69, 121, 108, 195, 188, 108>>,    \* "Eylül"
       <<69, 107, 105, 109>>,    \* "Ekim"
       <<75, 97, 115, 196, 177, 109>>,    \* "Kasım"
       <<65, 114, 97, 108, 196, 177, 107>> >>    \* "Aralık"

TrDayPeriods ==
    << <<195, 150, 195, 150>>,    \* "ÖÖ"
       <<195, 150, 83>> >>    \* "ÖS"

\* A custom locale: entries that are prefixes of other entries (in both
\* table orders), duplicate and case-equal entries, empty entries, and two
\* kinds the language does not support (empty tables).
SynLongDay ==
    << <<119, 120, 121>>,    \* "wxy"
       <<119, 120>>,    \* "wx"
       <<87, 50>>,    \* "W2"
       <<119, 50>>,    \* "w2"
       <<119, 52>>,    \* "w4"
       <<119, 53>>,    \* "w5"
       <<119, 54>> >>    \* "w6"

SynShortMonth ==
    << <<77, 97>>,    \* "Ma"
       <<77, 97, 114>>,    \* "Mar"
       <<100, 117, 112>>,    \* "dup"
       <<100, 117, 112>>,    \* "dup"
       <<110, 52>>,    \* "n4"
       <<110, 53>>,    \* "n5"
       <<110, 54>>,    \* "n6"
       <<110, 55>>,    \* "n7"
       <<110, 56>>,    \* "n8"
       <<110, 57>>,    \* "n9"
       <<110, 97>>,    \* "na"
       <<110, 98>> >>    \* "nb"

SynLongMonth ==
    << <<>>,    \* ""
       <<117, 110, 111>>,    \* "uno"
       <<>>,    \* ""
       <<116, 114, 101, 115>>,    \* "tres"
       <<108, 52>>,    \* "l4"
       <<108, 53>>,    \* "l5"
       <<108, 54>>,    \* "l6"
       <<108, 55>>,    \* "l7"
       <<108, 56>>,    \* "l8"
       <<108, 57>>,    \* "l9"
       <<108, 97>>,    \* "la"
       <<108, 98>> >>    \* "lb"
\* The locales of the model, by language tag.
Locales == {"en", "es", "tr", "syn"}

\* The five accessors of the Locale interface (locale.go), for the locale
\* with language tag loc.
ShortDayNames(loc) ==
    CASE loc = "en" -> shortDayNamesStd
      [] loc = "es" -> EsShortDay
      [] loc = "tr" -> TrShortDay
      [] OTHER -> <<>>

LongDayNames(loc) ==
    CASE loc = "en" -> longDayNamesStd
      [] loc = "es" -> EsLongDay
      [] loc = "tr" -> TrLongDay
      [] OTHER -> SynLongDay

ShortMonthNames(loc) ==
    CASE loc = "en" -> shortMonthNamesStd
      [] loc = "es" -> EsShortMonth
      [] loc = "tr" -> TrShortMonth
      [] OTHER -> SynShortMonth

LongMonthNames(loc) ==
    CASE loc = "en" -> longMonthNamesStd
      [] loc = "es" -> EsLongMonth
      [] loc = "tr" -> TrLongMonth
      [] OTHER -> SynLongMonth

DayPeriods(loc) ==
    CASE loc = "en" -> dayPeriodsStd
      [] loc = "es" -> EsDayPeriods
      [] loc = "tr" -> TrDayPeriods
      [] OTHER -> <<>>

\* Locale.Language().String()
Language(loc) == loc

(***************************************************************************)
(* Errors (lunes.go): the nil error, *ErrLayoutMismatch and                *)
(* *ErrUnsupportedLayoutElem, and the error of nextNonSpaceValue.          *)
(***************************************************************************)
NilErr ==
    [kind |-> "nil", LayoutElem |-> <<>>, Value |-> <<>>, Language |-> ""]

newLayoutMismatchError(elem, value) ==
    [kind |-> "ErrLayoutMismatch", LayoutElem |-> elem, Value |-> value,
     Language |-> ""]

newUnsupportedLayoutElemError(elem, loc) ==
    [kind |-> "ErrUnsupportedLayoutElem", LayoutElem |-> elem, Value |-> <<>>,
     Language |-> Language(loc)]

NotFoundErr ==
    [kind |-> "next non-space value not found", LayoutElem |-> <<>>,
     Value |-> <<>>, Language |-> ""]

(***************************************************************************)
(* The helpers of Translate.                                               *)
(***************************************************************************)

\* for newOffset < len(val) && unicode.IsSpace(rune(val[newOffset])) { newOffset++ }
RECURSIVE SkipSpaces(_, _)
SkipSpaces(val, newOffset) ==
    IF newOffset < Len(val) /\ IsSpace(val[newOffset + 1])
    THEN SkipSpaces(val, newOffset + 1)
    ELSE newOffset

\* A range loop that keeps the first entry that matches.
RECURSIVE LookupLoop_First(_, _, _, _, _)
LookupLoop_First(lookupTab, stdTab, val, i, m) ==
    IF i > Len(lookupTab) THEN m
    ELSE
      LET v == lookupTab[i]
          end == m.newOffset + Len(v)
          hit == /\ m.stdValue = <<>>
                 /\ ~(end > Len(val))
                 /\ EqualFold(Slice(val, m.newOffset, end), v)
      IN  LookupLoop_First(lookupTab, stdTab, val, i + 1,
                           IF hit
                           THEN [m EXCEPT !.stdValue = stdTab[i],
                                          !.value = Slice(val, m.newOffset, end)]
                           ELSE m)

\* A range loop in which a later match of the same length replaces the
\* match found.
RECURSIVE LookupLoop_LastTie(_, _, _, _, _)
LookupLoop_LastTie(lookupTab, stdTab, val, i, m) ==
    IF i > Len(lookupTab) THEN m
    ELSE
      LET v == lookupTab[i]
          end == m.newOffset + Len(v)
          hit == /\ ~(m.stdValue # <<>> /\ Len(v) < Len(m.value))
                 /\ ~(end > Len(val))
                 /\ EqualFold(Slice(val, m.newOffset, end), v)
      IN  LookupLoop_LastTie(lookupTab, stdTab, val, i + 1,
                             IF hit
                             THEN [m EXCEPT !.stdValue = stdTab[i],
                                            !.value = Slice(val, m.newOffset, end)]
                             ELSE m)

\* The range loop of lookup from table index i (1-based) on; m holds the
\* four results of lookup, with the match found so far: m.stdValue (empty
\* when none) and m.value (the matched text).
RECURSIVE LookupLoop(_, _, _, _, _)
LookupLoop(lookupTab, stdTab, val, i, m) ==
    IF i > Len(lookupTab) THEN m
    ELSE
      LET v == lookupTab[i]
          end == m.newOffset + Len(v)
          \* the two `continue` statements, then the comparison
          hit == /\ ~(m.stdValue # <<>> /\ Len(v) <= Len(m.value))
                 /\ ~(end > Len(val))
                 /\ EqualFold(Slice(val, m.newOffset, end), v)
      IN  LookupLoop(lookupTab, stdTab, val, i + 1,
                     IF hit
                     THEN [m EXCEPT !.stdValue = stdTab[i],
                                    !.value = Slice(val, m.newOffset, end)]
                     ELSE m)

\* A lookup that returns the locale's entry in place of the canonical one.
lookup_Untranslated(lookupTab, offset, val, stdTab) ==
    LET From(newOffset) ==
            IF newOffset > Len(val)
            THEN [newOffset |-> offset, skippedSpaces |-> newOffset - offset,
                  stdValue |-> <<>>, value |-> val]
            ELSE LookupLoop(lookupTab, lookupTab, val, 1,
                            [newOffset |-> newOffset,
                             skippedSpaces |-> newOffset - offset,
                             stdValue |-> <<>>, value |-> <<>>])
    IN  From(SkipSpaces(val, offset))

\* lookup(lookupTab, offset, val, stdTab)
lookup(lookupTab, offset, val, stdTab) ==
    LET From(newOffset) ==
            IF newOffset > Len(val)
            THEN [newOffset |-> offset, skippedSpaces |-> newOffset - offset,
                  stdValue |-> <<>>, value |-> val]
            ELSE LookupLoop(lookupTab, stdTab, val, 1,
                            [newOffset |-> newOffset,
                             skippedSpaces |-> newOffset - offset,
                             stdValue |-> <<>>, value |-> <<>>])
    IN  From(SkipSpaces(val, offset))

\* A writeLayoutValue whose error carries the value from the cursor on.
writeLayoutValue_RestOfValue(layoutElem, lookupTab, stdTab, valueOffset, value, sb) ==
    LET Write(l) ==
            IF l.stdValue = <<>>
            THEN [valueOffset |-> valueOffset, sb |-> sb,
                  err |-> newLayoutMismatchError(layoutElem, SliceFrom(value, valueOffset))]
            ELSE [valueOffset |-> l.newOffset + Len(l.value),
                  sb |-> sb \o Spaces(l.skippedSpaces) \o l.stdValue,
                  err |-> NilErr]
    IN  Write(lookup(lookupTab, valueOffset, value, stdTab))

\* writeLayoutValue(layoutElem, lookupTab, stdTab, valueOffset, value, sb):
\* the new value offset, the builder and the error.
writeLayoutValue(layoutElem, lookupTab, stdTab, valueOffset, value, sb) ==
    LET Write(l) ==
            IF l.stdValue = <<>>
            THEN [valueOffset |-> valueOffset, sb |-> sb,
                  err |-> newLayoutMismatchError(layoutElem, value)]
            ELSE [valueOffset |-> l.newOffset + Len(l.value),
                  sb |-> sb \o Spaces(l.skippedSpaces) \o l.stdValue,
                  err |-> NilErr]
    IN  Write(lookup(lookupTab, valueOffset, value, stdTab))

\* The second loop of nextNonSpaceValue; r holds the four results.  val
\* grows by string(value[newOffset]), the UTF-8 encoding of the byte's value
\* taken as a rune.
RECURSIVE NonSpaceLoop(_, _, _)
NonSpaceLoop(value, max, r) ==
    IF r.newOffset >= Len(value) THEN r
    ELSE IF IsSpace(value[r.newOffset + 1]) THEN r
    ELSE IF Len(r.val) + Len(Utf8(value[r.newOffset + 1])) = max
    THEN [r EXCEPT !.newOffset = r.newOffset + 1,
                   !.val = r.val \o Utf8(value[r.newOffset + 1])]
    ELSE NonSpaceLoop(value, max,
                      [r EXCEPT !.newOffset = r.newOffset + 1,
                                !.val = r.val \o Utf8(value[r.newOffset + 1])])

\* nextNonSpaceValue(value, offset, max)
nextNonSpaceValue(value, offset, max) ==
    LET From(newOffset) ==
            IF newOffset > Len(value)
            THEN [newOffset |-> offset, skippedSpaces |-> newOffset - offset,
                  val |-> <<>>, err |-> NotFoundErr]
            ELSE NonSpaceLoop(value, max,
                              [newOffset |-> newOffset,
                               skippedSpaces |-> newOffset - offset,
                               val |-> <<>>, err |-> NilErr])
    IN  From(SkipSpaces(value, offset))

\* writeNextNonSpaceValue(value, offset, max, sb)
writeNextNonSpaceValue(value, offset, max, sb) ==
    LET Write(n) ==
            IF n.err # NilErr
            THEN [valueOffset |-> offset, sb |-> sb, err |-> n.err]
            ELSE [valueOffset |-> n.newOffset,
                  sb |-> sb \o Spaces(n.skippedSpaces) \o n.val,
                  err |-> NilErr]
    IN  Write(nextNonSpaceValue(value, offset, max))

\* A guard that takes no following byte for a lower-case letter.
startsWithLowerCase_Never(value) == FALSE

\* startsWithLowerCase(value)
startsWithLowerCase(value) ==
    IF Len(value) = 0 THEN FALSE
    ELSE value[1] >= 97 /\ value[1] <= 122

(***************************************************************************)
(* Translate.  The scanner's local state is the record                     *)
(*   [layoutOffset, valueOffset, sb, err, written]                         *)
(* (sb is the strings.Builder's content).  Each switch case is an          *)
(* operator from the state at the top of a loop iteration to the state     *)
(* after the switch; LoopBody adds the `if !written` block.                *)
(***************************************************************************)

\* The layout elements, as the strings the code compares the layout with.
Jan == <<74, 97, 110>>
January == <<74, 97, 110, 117, 97, 114, 121>>
Mon == <<77, 111, 110>>
Monday == <<77, 111, 110, 100, 97, 121>>
PM == <<80, 77>>

\* A recognised element that is looked up without the check for an empty
\* table.
TranslateElem_NoUnsupported(layoutElem, tokenLen, lookupTab, stdTab, value, loc, st) ==
    LET Written(w) ==
            [layoutOffset |-> st.layoutOffset + tokenLen,
             valueOffset |-> w.valueOffset,
             sb |-> w.sb,
             err |-> w.err,
             written |-> w.err = NilErr]
    IN  Written(writeLayoutValue(layoutElem, lookupTab, stdTab,
                                 st.valueOffset, value, st.sb))

\* Lines 144-154 (and 173-182, 187-196): a recognised element layoutElem of
\* tokenLen layout bytes, with its locale table and canonical table.
TranslateElem(layoutElem, tokenLen, lookupTab, stdTab, value, loc, st) ==
    LET Written(w) ==
            [layoutOffset |-> st.layoutOffset + tokenLen,
             valueOffset |-> w.valueOffset,
             sb |-> w.sb,
             err |-> w.err,
             written |-> w.err = NilErr]
    IN  IF Len(lookupTab) = 0
        THEN [st EXCEPT !.err = newUnsupportedLayoutElemError(layoutElem, loc)]
        ELSE Written(writeLayoutValue(layoutElem, lookupTab, stdTab,
                                      st.valueOffset, value, st.sb))

\* case 'J': January, Jan
CaseJ(layout, value, loc, st) ==
    LET lo == st.layoutOffset IN
    IF Len(layout) >= lo + 3 /\ Slice(layout, lo, lo + 3) = Jan
    THEN IF Len(layout) >= lo + 7 /\ Slice(layout, lo, lo + 7) = January
         THEN TranslateElem(January, Len(January), LongMonthNames(loc),
                            longMonthNamesStd, value, loc, st)
         ELSE IF ~startsWithLowerCase(SliceFrom(layout, lo + 3))
         THEN TranslateElem(Jan, Len(Jan), ShortMonthNames(loc),
                            shortMonthNamesStd, value, loc, st)
         ELSE st
    ELSE st

\* case 'M': Monday, Mon
CaseM(layout, value, loc, st) ==
    LET lo == st.layoutOffset IN
    IF Len(layout) >= lo + 3 /\ Slice(layout, lo, lo + 3) = Mon
    THEN IF Len(layout) >= lo + 6 /\ Slice(layout, lo, lo + 6) = Monday
         THEN TranslateElem(Monday, Len(Monday), LongDayNames(loc),
                            longDayNamesStd, value, loc, st)
         ELSE IF ~startsWithLowerCase(SliceFrom(layout, lo + 3))
         THEN TranslateElem(Mon, Len(Mon), ShortDayNames(loc),
                            shortDayNamesStd, value, loc, st)
         ELSE st
    ELSE st

\* A case 'P', 'p' that takes the second letter in upper case only.
CaseP_UpperOnly(layout, value, loc, st) ==
    LET lo == st.layoutOffset IN
    IF Len(layout) >= lo + 2 /\ layout[lo + 2] = 77
    THEN TranslateElem(PM, 2, DayPeriods(loc), dayPeriodsStd, value, loc, st)
    ELSE st

\* case 'P', 'p': PM, pm
CaseP(layout, value, loc, st) ==
    LET lo == st.layoutOffset IN
    IF Len(layout) >= lo + 2 /\ ToUpper(layout[lo + 2]) = 77
    THEN TranslateElem(PM, 2, DayPeriods(loc), dayPeriodsStd, value, loc, st)
    ELSE st

\* Lines 215-222 and 226-233: a padding marker of layoutElemSize layout bytes.
WritePadded(value, layoutElemSize, st) ==
    LET Written(w) ==
            [layoutOffset |-> st.layoutOffset + layoutElemSize,
             valueOffset |-> w.valueOffset,
             sb |-> w.sb,
             err |-> w.err,
             written |-> w.err = NilErr]
    IN  Written(writeNextNonSpaceValue(value, st.valueOffset, layoutElemSize, st.sb))

\* A first if statement of case '_' that does not test how many value bytes
\* are left.
CaseUnderscore2_NoLengthTest(layout, value, st) ==
    LET lo == st.layoutOffset
    IN  IF Len(layout) >= lo + 2 /\ layout[lo + 2] = 50
        THEN LET layoutElemSize ==
                   IF Len(layout) >= lo + 5
                      /\ Slice(layout, lo + 1, lo + 5) = <<50, 48, 48, 54>>
                   THEN 5
                   ELSE 2
             IN WritePadded(value, layoutElemSize, st)
        ELSE st

\* case '_', first if statement (lines 202-223): _2, _2006
CaseUnderscore2(layout, value, st) ==
    LET lo == st.layoutOffset
        vo == st.valueOffset
    IN  IF Len(layout) >= lo + 2 /\ layout[lo + 2] = 50
        THEN LET layoutElemSize ==
                   IF Len(layout) >= lo + 5
                      /\ Slice(layout, lo + 1, lo + 5) = <<50, 48, 48, 54>>
                   THEN (IF Len(value) >= vo + 5 THEN 5 ELSE 0)
                   ELSE (IF Len(value) >= vo + 2 THEN 2 ELSE 0)
             IN IF layoutElemSize > 0 THEN WritePadded(value, layoutElemSize, st)
                ELSE st
        ELSE st

\* case '_', second if statement (lines 225-234): __2, tested at the layout
\* offset the first if statement left.
CaseUnderscore3(layout, value, st) ==
    LET lo == st.layoutOffset
        vo == st.valueOffset
    IN  IF Len(layout) >= lo + 3 /\ layout[lo + 2] = 95 /\ layout[lo + 3] = 50
        THEN IF Len(value) >= vo + 3 THEN WritePadded(value, 3, st) ELSE st
        ELSE st

\* case '_': _2, _2006, __2
CaseUnderscore(layout, value, st) ==
    LET Second(a) == IF a.err # NilErr THEN a ELSE CaseUnderscore3(layout, value, a)
    IN  Second(CaseUnderscore2(layout, value, st))

\* Lines 237-248: nothing was written by the switch; one byte of the value,
\* converted to a rune, is written with WriteRune, and the value offset
\* advances by the number of bytes written.
WriteLiteral(value, st) ==
    LET has == Len(value) > st.valueOffset
        w == IF has THEN Utf8(value[st.valueOffset + 1]) ELSE <<>>
    IN [layoutOffset |-> st.layoutOffset + 1,
        valueOffset |-> st.valueOffset + Len(w),
        sb |-> st.sb \o w,
        err |-> NilErr,
        written |-> FALSE]

\* A switch that first looks through the rest of the layout for an element
\* the locale has no table for.
Switch_UnsupportedAhead(layout, value, loc, st) ==
    LET c == layout[st.layoutOffset + 1]
        ahead == {p \in (st.layoutOffset + 1)..(Len(layout) - 2) :
                     /\ layout[p + 1] \in {80, 112}
                     /\ ToUpper(layout[p + 2]) = 77
                     /\ Len(DayPeriods(loc)) = 0}
    IN  IF ahead # {} THEN [st EXCEPT !.err = newUnsupportedLayoutElemError(PM, loc)]
        ELSE CASE c = 74 -> CaseJ(layout, value, loc, st)
               [] c = 77 -> CaseM(layout, value, loc, st)
               [] c = 80 \/ c = 112 -> CaseP(layout, value, loc, st)
               [] c = 95 -> CaseUnderscore(layout, value, st)
               [] OTHER -> st

\* The switch statement on c = layout[layoutOffset] (lines 126-235).
Switch(layout, value, loc, st) ==
    LET c == layout[st.layoutOffset + 1] IN
    CASE c = 74 -> CaseJ(layout, value, loc, st)
      [] c = 77 -> CaseM(layout, value, loc, st)
      [] c = 80 \/ c = 112 -> CaseP(layout, value, loc, st)
      [] c = 95 -> CaseUnderscore(layout, value, st)
      [] OTHER -> st

\* One iteration of the loop of Translate (lines 123-248), from a state
\* with layoutOffset < len(layout); err # nil means Translate returned it.
LoopBody(layout, value, loc, st) ==
    LET After(s) ==
            IF s.err # NilErr THEN s
            ELSE IF ~s.written THEN WriteLiteral(value, s)
            ELSE s
    IN  After(Switch(layout, value, loc, [st EXCEPT !.written = FALSE]))

\* A return without the rest of the value.
Finish_NoTail(value, st) == st.sb

\* Lines 251-255: the string Translate returns after the loop.
Finish(value, st) ==
    IF Len(value) >= st.valueOffset
    THEN st.sb \o SliceFrom(value, st.valueOffset)
    ELSE st.sb

\* The scanner state Translate starts with.
Start ==
    [layoutOffset |-> 0, valueOffset |-> 0, sb |-> <<>>, err |-> NilErr,
     written |-> FALSE]

\* Translate from the scanner state st on: the pair (string, error) returned.
RECURSIVE TranslateFrom(_, _, _, _)
TranslateFrom(layout, value, loc, st) ==
    IF st.err # NilErr THEN [out |-> <<>>, err |-> st.err]
    ELSE IF st.layoutOffset >= Len(layout)
    THEN [out |-> Finish(value, st), err |-> NilErr]
    ELSE TranslateFrom(layout, value, loc, LoopBody(layout, value, loc, st))

\* Translate(layout, value, locale)
Translate(layout, value, loc) == TranslateFrom(layout, value, loc, Start)

(***************************************************************************)
(* The index and slice expressions Translate evaluates.  A read is the     *)
(* record [seq, from, to, len]: the slice [from:to] of a string or table   *)
(* of len elements (an index expression s[i] is the read of [i:i+1]).      *)
(* Each operator gives the reads of the statements it is named after, each *)
(* read under the conditions the code evaluates it under.                  *)
(***************************************************************************)
Rd(seq, from, to, len) == [seq |-> seq, from |-> from, to |-> to, len |-> len]

\* The reads val[k] of the white-space loop of lookup and nextNonSpaceValue,
\* which stops at offset n.
SpaceReads(val, offset, n) ==
    {Rd("value", k, k + 1, Len(val)) : k \in {j \in offset..n : j < Len(val)}}

\* lookup: the white-space loop; then, for each table entry the two
\* `continue` statements let through, val[newOffset:end], and stdTab[i]
\* when the entry matches.
lookupReads(lookupTab, offset, val, stdTab) ==
    LET EntryReads(i, m) ==
            IF \/ m.stdValue # <<>> /\ Len(lookupTab[i]) <= Len(m.value)
               \/ m.newOffset + Len(lookupTab[i]) > Len(val)
            THEN {}
            ELSE {Rd("value", m.newOffset, m.newOffset + Len(lookupTab[i]), Len(val))}
                 \cup (IF EqualFold(Slice(val, m.newOffset,
                                          m.newOffset + Len(lookupTab[i])),
                                    lookupTab[i])
                       THEN {Rd("stdTab", i - 1, i, Len(stdTab))}
                       ELSE {})
        From(n) ==
            SpaceReads(val, offset, n)
            \cup (IF n > Len(val) THEN {}
                  ELSE UNION {EntryReads(i, LookupLoop(SubSeq(lookupTab, 1, i - 1),
                                                       stdTab, val, 1,
                                                       [newOffset |-> n,
                                                        skippedSpaces |-> n - offset,
                                                        stdValue |-> <<>>,
                                                        value |-> <<>>])) :
                              i \in 1..Len(lookupTab)})
    IN  From(SkipSpaces(val, offset))

\* nextNonSpaceValue: the white-space loop, then value[newOffset] for every
\* byte taken, and for the byte the loop stopped at unless it stopped on
\* len(val) == max.
nextNonSpaceValueReads(value, offset, max) ==
    LET Taken(n, r) ==
            IF n > Len(value) THEN {}
            ELSE {Rd("value", k, k + 1, Len(value)) :
                     k \in {j \in n..r.newOffset :
                               /\ j < Len(value)
                               /\ j < r.newOffset \/ Len(r.val) # max}}
    IN  SpaceReads(value, offset, SkipSpaces(value, offset))
        \cup Taken(SkipSpaces(value, offset), nextNonSpaceValue(value, offset, max))

\* A recognised element: lookup is called unless the table is empty.
ElemReads(lookupTab, stdTab, value, st) ==
    IF Len(lookupTab) = 0 THEN {}
    ELSE lookupReads(lookupTab, st.valueOffset, value, stdTab)

\* case 'J' and case 'M': short is "Jan" or "Mon", long "January" or "Monday".
NameReads(layout, value, st, short, long, longTab, longStd, shortTab, shortStd) ==
    LET lo == st.layoutOffset
        L == Len(layout)
    IN  IF ~(L >= lo + 3) THEN {}
        ELSE {Rd("layout", lo, lo + 3, L)}
             \cup (IF Slice(layout, lo, lo + 3) # short THEN {}
                   ELSE (IF L >= lo + Len(long)
                         THEN {Rd("layout", lo, lo + Len(long), L)} ELSE {})
                        \cup (IF L >= lo + Len(long)
                                 /\ Slice(layout, lo, lo + Len(long)) = long
                              THEN ElemReads(longTab, longStd, value, st)
                              ELSE {Rd("layout", lo + 3, L, L)}
                                   \cup (IF L > lo + 3
                                         THEN {Rd("layout", lo + 3, lo + 4, L)} ELSE {})
                                   \cup (IF ~startsWithLowerCase(SliceFrom(layout, lo + 3))
                                         THEN ElemReads(shortTab, shortStd, value, st)
                                         ELSE {})))

\* case 'P', 'p'
CasePReads(layout, value, loc, st) ==
    LET lo == st.layoutOffset
        L == Len(layout)
    IN  IF ~(L >= lo + 2) THEN {}
        ELSE {Rd("layout", lo + 1, lo + 2, L)}
             \cup (IF ToUpper(layout[lo + 2]) = 77
                   THEN ElemReads(DayPeriods(loc), dayPeriodsStd, value, st)
                   ELSE {})

\* case '_', first if statement.
CaseUnderscore2Reads(layout, value, st) ==
    LET lo == st.layoutOffset
        L == Len(layout)
        vo == st.valueOffset
    IN  IF ~(L >= lo + 2) THEN {}
        ELSE {Rd("layout", lo + 1, lo + 2, L)}
             \cup (IF layout[lo + 2] # 50 THEN {}
                   ELSE (IF L >= lo + 5 THEN {Rd("layout", lo + 1, lo + 5, L)} ELSE {})
                        \cup (IF L >= lo + 5 /\ Slice(layout, lo + 1, lo + 5) = <<50, 48, 48, 54>>
                              THEN (IF Len(value) >= vo + 5
                                    THEN nextNonSpaceValueReads(value, vo, 5) ELSE {})
                              ELSE (IF Len(value) >= vo + 2
                                    THEN nextNonSpaceValueReads(value, vo, 2) ELSE {})))

\* case '_', second if statement, from the state a the first one left.
CaseUnderscore3Reads(layout, value, a) ==
    LET lo == a.layoutOffset
        L == Len(layout)
    IN  IF ~(L >= lo + 3) THEN {}
        ELSE {Rd("layout", lo + 1, lo + 2, L)}
             \cup (IF layout[lo + 2] # 95 THEN {}
                   ELSE {Rd("layout", lo + 2, lo + 3, L)}
                        \cup (IF layout[lo + 3] = 50 /\ Len(value) >= a.valueOffset + 3
                              THEN nextNonSpaceValueReads(value, a.valueOffset, 3)
                              ELSE {}))

CaseUnderscoreReads(layout, value, st) ==
    LET Second(a) == IF a.err # NilErr THEN {} ELSE CaseUnderscore3Reads(layout, value, a)
    IN  CaseUnderscore2Reads(layout, value, st)
        \cup Second(CaseUnderscore2(layout, value, st))

\* The `if !written` block, s being the state the switch left.
LiteralReads(value, s) ==
    IF s.err = NilErr /\ ~s.written /\ Len(value) > s.valueOffset
    THEN {Rd("value", s.valueOffset, s.valueOffset + 1, Len(value))}
    ELSE {}

\* A return that slices the value without the test of its length.
FinishReads_NoGuard(value, st) ==
    {Rd("value", st.valueOffset, Len(value), Len(value))}

\* Lines 251-253: value[valueOffset:] under len(value) >= valueOffset.
FinishReads(value, st) ==
    IF Len(value) >= st.valueOffset
    THEN {Rd("value", st.valueOffset, Len(value), Len(value))}
    ELSE {}

\* One iteration of the loop of Translate from the scanner state st.
TranslateReads(layout, value, loc, st) ==
    LET c == layout[st.layoutOffset + 1] IN
    {Rd("layout", st.layoutOffset, st.layoutOffset + 1, Len(layout))}
    \cup (CASE c = 74 -> NameReads(layout, value, st, Jan, January,
                                   LongMonthNames(loc), longMonthNamesStd,
                                   ShortMonthNames(loc), shortMonthNamesStd)
            [] c = 77 -> NameReads(layout, value, st, Mon, Monday,
                                   LongDayNames(loc), longDayNamesStd,
                                   ShortDayNames(loc), shortDayNamesStd)
            [] c = 80 \/ c = 112 -> CasePReads(layout, value, loc, st)
            [] c = 95 -> CaseUnderscoreReads(layout, value, st)
            [] OTHER -> {})
    \cup LiteralReads(value, Switch(layout, value, loc, [st EXCEPT !.written = FALSE]))

(***************************************************************************)
(* The standard parser time.Parse, which Parse delegates to, for layouts   *)
(* made of the elements Jan, January, Mon, Monday, PM, pm and literal      *)
(* bytes.  A layout holding a byte that starts another element of the      *)
(* standard parser (a digit, '_', '-', '.', ',', 'Z') is outside this      *)
(* fragment and gives "unmodelled".                                        *)
(***************************************************************************)

\* The element of the standard layout language that starts at offset i of
\* layout: its name and length ("" when the byte is a literal).
StdElemAt(layout, i) ==
    LET c == layout[i + 1] IN
    IF c = 74 /\ Len(layout) >= i + 3 /\ Slice(layout, i, i + 3) = Jan
    THEN IF Len(layout) >= i + 7 /\ Slice(layout, i, i + 7) = January
         THEN [std |-> "stdLongMonth", len |-> 7]
         ELSE IF ~startsWithLowerCase(SliceFrom(layout, i + 3))
         THEN [std |-> "stdMonth", len |-> 3]
         ELSE [std |-> "", len |-> 0]
    ELSE IF c = 77 /\ Len(layout) >= i + 3 /\ Slice(layout, i, i + 3) = Mon
    THEN IF Len(layout) >= i + 6 /\ Slice(layout, i, i + 6) = Monday
         THEN [std |-> "stdLongWeekDay", len |-> 6]
         ELSE IF ~startsWithLowerCase(SliceFrom(layout, i + 3))
         THEN [std |-> "stdWeekDay", len |-> 3]
         ELSE [std |-> "", len |-> 0]
    ELSE IF c = 80 /\ Len(layout) >= i + 2 /\ layout[i + 2] = 77
    THEN [std |-> "stdPM", len |-> 2]
    ELSE IF c = 112 /\ Len(layout) >= i + 2 /\ layout[i + 2] = 109
    THEN [std |-> "stdpm", len |-> 2]
    ELSE [std |-> "", len |-> 0]

\* Whether the layout is inside the modelled fragment of the standard
\* layout language.
StdModelled(layout) ==
    /\ \A k \in 1..Len(layout) :
          layout[k] \notin (48..57) \cup {95, 45, 46, 44, 90}
    /\ \A k \in 0..(Len(layout) - 3) : Slice(layout, k, k + 3) # <<77, 83, 84>>

\* nextStdChunk(layout): the offset of the first element from i on
\* (len(layout) when there is none).
RECURSIVE NextStdChunk(_, _)
NextStdChunk(layout, i) ==
    IF i >= Len(layout) THEN Len(layout)
    ELSE IF StdElemAt(layout, i).std # "" THEN i
    ELSE NextStdChunk(layout, i + 1)

\* cutspace(s): s without its leading spaces.
RECURSIVE CutSpace(_)
CutSpace(s) == IF Len(s) > 0 /\ s[1] = 32 THEN CutSpace(Tail(s)) ELSE s

\* skip(value, prefix) of package time: the rest of value, or an error.
RECURSIVE StdSkip(_, _)
StdSkip(value, prefix) ==
    IF Len(prefix) = 0 THEN [ok |-> TRUE, value |-> value]
    ELSE IF prefix[1] = 32 /\ Len(value) > 0 /\ value[1] # 32
    THEN [ok |-> FALSE, value |-> value]
    ELSE IF prefix[1] # 32 /\ (Len(value) = 0 \/ value[1] # prefix[1])
    THEN [ok |-> FALSE, value |-> value]
    ELSE StdSkip(IF prefix[1] = 32 THEN CutSpace(value) ELSE Tail(value),
                 IF prefix[1] = 32 THEN CutSpace(prefix) ELSE Tail(prefix))

\* match(s1, s2) of package time: equal up to the case of ASCII letters.
StdMatch(s1, s2) ==
    \A k \in 1..Len(s1) :
        \/ s1[k] = s2[k]
        \/ LET c1 == IF s1[k] >= 65 /\ s1[k] <= 90 THEN s1[k] + 32 ELSE s1[k]
               c2 == IF s2[k] >= 65 /\ s2[k] <= 90 THEN s2[k] + 32 ELSE s2[k]
           IN c1 = c2 /\ c1 >= 97 /\ c1 <= 122

\* lookup(tab, val) of package time: the first entry val starts with.
StdLookup(tab, val) ==
    LET hits == {i \in 1..Len(tab) :
                    Len(val) >= Len(tab[i]) /\ StdMatch(SubSeq(val, 1, Len(tab[i])), tab[i])}
    IN IF hits = {} THEN [ok |-> FALSE, value |-> val]
       ELSE LET i == CHOOSE h \in hits : \A g \in hits : h <= g
            IN [ok |-> TRUE, value |-> SubSeq(val, Len(tab[i]) + 1, Len(val))]

\* The day-period element of the standard parser: "PM"/"AM" only for
\* stdPM, "pm"/"am" only for stdpm.
StdDayPeriod(std, value) ==
    IF Len(value) < 2 THEN [ok |-> FALSE, value |-> value]
    ELSE LET p == SubSeq(value, 1, 2) IN
         [ok |-> IF std = "stdPM" THEN p \in {<<80, 77>>, <<65, 77>>}
                 ELSE p \in {<<112, 109>>, <<97, 109>>},
          value |-> SubSeq(value, 3, Len(value))]

\* The element std of the standard parser applied to value.
StdElem(std, value) ==
    CASE std = "stdMonth" -> StdLookup(shortMonthNamesStd, value)
      [] std = "stdLongMonth" -> StdLookup(longMonthNamesStd, value)
      [] std = "stdWeekDay" -> StdLookup(shortDayNamesStd, value)
      [] std = "stdLongWeekDay" -> StdLookup(longDayNamesStd, value)
      [] OTHER -> StdDayPeriod(std, value)

\* The loop of time.Parse over the chunks of the layout; r is the value
\* left and whether an error was found.
RECURSIVE StdParseLoop(_, _)
StdParseLoop(layout, r) ==
    LET Elem(i, sk) ==
            IF ~sk.ok \/ i >= Len(layout) THEN sk
            ELSE StdElem(StdElemAt(layout, i).std, sk.value)
        Chunk(i) == Elem(i, StdSkip(r.value, Slice(layout, 0, i)))
        Rest(i) == IF i >= Len(layout) THEN <<>>
                   ELSE SliceFrom(layout, i + StdElemAt(layout, i).len)
        Loop(i) == IF i >= Len(layout) THEN Chunk(i)
                   ELSE StdParseLoop(Rest(i), Chunk(i))
    IN  IF ~r.ok THEN r
        ELSE Loop(NextStdChunk(layout, 0))

\* The result of time.Parse inside the fragment: an error when an element
\* or a prefix did not match, or when text is left after the layout.
StdParse(layout, value) ==
    LET Result(r) == IF r.ok /\ Len(r.value) = 0 THEN "ok" ELSE "err"
    IN  Result(StdParseLoop(layout, [ok |-> TRUE, value |-> value]))

\* time.Parse(layout, value): "ok", "err", or "unmodelled".
timeParse(layout, value) ==
    IF ~StdModelled(layout) THEN "unmodelled" ELSE StdParse(layout, value)

\* What Parse and ParseInLocation do with the result t of Translate: on an
\* error they return the zero time and the error; otherwise they return what
\* the standard parser returns for the layout and the translated value.
\* stdCalls counts the calls of the standard parser, stdLayout and stdValue
\* are the arguments of the call, res is its outcome.
Delegate(fn, layout, t) ==
    IF t.err # NilErr
    THEN [fn |-> fn, stdCalls |-> 0, stdLayout |-> <<>>, stdValue |-> <<>>,
          res |-> "err", err |-> t.err]
    ELSE [fn |-> fn, stdCalls |-> 1, stdLayout |-> layout, stdValue |-> t.out,
          res |-> timeParse(layout, t.out), err |-> NilErr]

\* Parse(layout, value, locale)
Parse(layout, value, loc) == Delegate("Parse", layout, Translate(layout, value, loc))

\* ParseInLocation(layout, value, locale, location): whether
\* time.ParseInLocation accepts a value does not depend on the location, so
\* its outcome is that of time.Parse.
ParseInLocation(layout, value, loc) ==
    Delegate("ParseInLocation", layout, Translate(layout, value, loc))

(***************************************************************************)
(* The inputs of the model.  A layout and its value are built field by     *)
(* field: a field pairs a piece of the layout with the piece of the value  *)
(* that stands for it.  A token field names a table, an index in it and    *)
(* how the entry is written (case, white space before it); every other     *)
(* field gives the value bytes themselves.                                 *)
(***************************************************************************)

\* The most fields a generated input is built from.
MaxFields == 2

Tok(lay, tab, idx, cs, pre) ==
    [lay |-> lay, tab |-> tab, idx |-> idx, cs |-> cs, pre |-> pre, txt |-> <<>>]

Lit(lay, txt) ==
    [lay |-> lay, tab |-> "", idx |-> 0, cs |-> "id", pre |-> <<>>, txt |-> txt]

\* The locale table and the canonical table of a token kind.
LocaleTab(loc, tab) ==
    CASE tab = "shortDay" -> ShortDayNames(loc)
      [] tab = "longDay" -> LongDayNames(loc)
      [] tab = "shortMonth" -> ShortMonthNames(loc)
      [] tab = "longMonth" -> LongMonthNames(loc)
      [] OTHER -> DayPeriods(loc)

StdTab(tab) ==
    CASE tab = "shortDay" -> shortDayNamesStd
      [] tab = "longDay" -> longDayNamesStd
      [] tab = "shortMonth" -> shortMonthNamesStd
      [] tab = "longMonth" -> longMonthNamesStd
      [] OTHER -> dayPeriodsStd

\* The table a value is written from: the locale's, or the canonical one
\* when the locale does not support the kind.
EntryTab(loc, tab) ==
    IF Len(LocaleTab(loc, tab)) = 0 THEN StdTab(tab) ELSE LocaleTab(loc, tab)

WithCase(cs, s) ==
    CASE cs = "up" -> StringsToUpper(s)
      [] cs = "lo" -> StringsToLower(s)
      [] OTHER -> s

\* The value piece of field f under locale loc.
ValuePiece(f, loc) ==
    IF f.tab = "" THEN f.txt
    ELSE f.pre \o WithCase(f.cs, EntryTab(loc, f.tab)[f.idx])

RECURSIVE LayoutOf(_)
LayoutOf(fs) == IF fs = <<>> THEN <<>> ELSE Head(fs).lay \o LayoutOf(Tail(fs))

RECURSIVE ValueOf(_, _)
ValueOf(fs, loc) ==
    IF fs = <<>> THEN <<>> ELSE ValuePiece(Head(fs), loc) \o ValueOf(Tail(fs), loc)

\* The fields generated inputs are built from.
TokenFields ==
    { Tok(Jan, "shortMonth", 1, "id", <<>>),
      Tok(Jan, "shortMonth", 2, "up", <<32>>),
      Tok(Jan, "shortMonth", 4, "id", <<>>),
      Tok(January, "longMonth", 2, "id", <<>>),
      Tok(January, "longMonth", 3, "lo", <<9>>),
      Tok(Mon, "shortDay", 2, "id", <<>>),
      Tok(Mon, "shortDay", 4, "up", <<>>),
      Tok(Monday, "longDay", 1, "id", <<>>),
      Tok(Monday, "longDay", 2, "id", <<32, 32>>),
      Tok(Monday, "longDay", 3, "up", <<>>),
      Tok(Monday, "longDay", 4, "lo", <<>>),
      Tok(<<80, 77>>, "dayPeriods", 1, "id", <<>>),
      Tok(<<80, 77>>, "dayPeriods", 2, "lo", <<>>),
      Tok(<<112, 109>>, "dayPeriods", 2, "id", <<>>),
      Tok(<<112, 109>>, "dayPeriods", 1, "up", <<32>>) }

LiteralFields ==
    { Lit(<<32>>, <<32>>),                                     \* " "      / " "
      Lit(<<58>>, <<58>>),                                     \* ":"      / ":"
      Lit(<<195, 169>>, <<195, 169>>),                         \* U+00E9   / U+00E9
      Lit(<<74, 97, 110, 101, 116>>, <<74, 97, 110, 101, 116>>),       \* "Janet"
      Lit(<<77, 111, 110, 116, 104>>, <<77, 111, 110, 116, 104>>),     \* "Month"
      Lit(<<58>>, <<>>),                                       \* ":"      / ""
      Lit(<<>>, <<122, 9>>),                                   \* ""       / "z\t"
      Lit(<<80, 77>>, <<>>) }                                  \* "PM"     / ""

PaddingFields ==
    { Lit(<<95, 50>>, <<55>>),                                 \* "_2"     / "7"
      Lit(<<95, 50>>, <<9, 49, 53>>),                          \* "_2"     / "\t15"
      Lit(<<95, 50>>, <<195, 169, 55>>),                       \* "_2"     / U+00E9 "7"
      Lit(<<95, 50, 48, 48, 54>>, <<32, 50, 48, 49, 48>>),     \* "_2006"  / " 2010"
      Lit(<<95, 95, 50>>, <<32, 32, 52>>),                     \* "__2"    / "  4"
      Lit(<<95, 95, 50>>, <<195, 169, 55, 56>>) }              \* "__2"    / U+00E9 "78"

Fields == TokenFields \cup LiteralFields \cup PaddingFields

\* The sequences of at most n fields.
RECURSIVE FieldSeqs(_)
FieldSeqs(n) ==
    IF n = 0 THEN {<<>>}
    ELSE LET shorter == FieldSeqs(n - 1)
         IN shorter \cup {<<f>> \o fs : f \in Fields, fs \in {g \in shorter : Len(g) = n - 1}}

\* The scenario of TestLayoutMismatch: layout "Mon January 03:04:05PM",
\* value "February Mon 03:04:05PM".
LayoutMismatched ==
    <<77, 111, 110, 32, 74, 97, 110, 117, 97, 114, 121, 32, 48, 51, 58, 48, 52, 58, 48, 53, 80, 77>>
ValueMismatched ==
    <<70, 101, 98, 114, 117, 97, 114, 121, 32, 77, 111, 110, 32, 48, 51, 58, 48, 52, 58, 48, 53, 80, 77>>

\* The scenarios of the documentation and the tests, for a Spanish value:
\* "Monday _2 2006 27" / "viernes 15 2006 27",
\* "Monday Jan _2 2006 15:04:05" / "lunes oct 27 1988 11:53:29",
\* "Monday _2 2006 27" / "    viernes   15  2006 27 ";
\* and, for every locale, the scenario of TestLayoutMismatch;
\* and two layouts in which a marker "_2" follows another after one byte:
\* "_2 _2" / "15 27", "_2T_2Jan" / "15T 27" and the third short month name;
\* and two layouts that go on after the value U+00E9 (bytes C3 A9) has been
\* used up by a marker and a literal byte: "_2:Jan", "_2:_2";
\* and a layout with two tokens of which the value holds neither:
\* "Monday PM" / "zz PM".
Scenarios ==
    { << Tok(Monday, "longDay", 6, "id", <<>>), Lit(<<32>>, <<32>>),
         Lit(<<95, 50>>, <<49, 53>>),
         Lit(<<32, 50, 48, 48, 54, 32, 50, 55>>, <<32, 50, 48, 48, 54, 32, 50, 55>>) >>,
      << Tok(Monday, "longDay", 2, "id", <<>>), Lit(<<32>>, <<32>>),
         Tok(Jan, "shortMonth", 10, "id", <<>>), Lit(<<32>>, <<32>>),
         Lit(<<95, 50>>, <<50, 55>>),
         Lit(<<32, 50, 48, 48, 54, 32, 49, 53, 58, 48, 52, 58, 48, 53>>,
             <<32, 49, 57, 56, 56, 32, 49, 49, 58, 53, 51, 58, 50, 57>>) >>,
      << Tok(Monday, "longDay", 6, "id", <<32, 32, 32, 32>>), Lit(<<32>>, <<32>>),
         Lit(<<95, 50>>, <<32, 32, 49, 53>>),
         Lit(<<32, 50, 48, 48, 54, 32, 50, 55>>, <<32, 32, 50, 48, 48, 54, 32, 50, 55, 32>>) >>,
      << Lit(LayoutMismatched, ValueMismatched) >>,
      << Lit(<<95, 50, 32, 95, 50>>, <<49, 53, 32, 50, 55>>) >>,
      << Lit(<<95, 50, 84, 95, 50>>, <<49, 53, 84, 32, 50, 55>>),
         Tok(Jan, "shortMonth", 3, "id", <<>>) >>,
      << Lit(<<95, 50, 58, 74, 97, 110>>, <<195, 169>>) >>,
      << Lit(<<95, 50, 58, 95, 50>>, <<195, 169>>) >>,
      << Lit(<<77, 111, 110, 100, 97, 121, 32, 80, 77>>, <<122, 122, 32, 80, 77>>) >> }

Inputs == FieldSeqs(MaxFields) \cup Scenarios

(***************************************************************************)
(* The table generator (generator.go) and NewDefaultLocale (locale.go).    *)
(* A map[string]string of the generator is a record [nil, m]: whether the  *)
(* map is nil, and the entries as a function from the index of the         *)
(* canonical key (the month number; "sun".."sat" as 1..7; "am", "pm" as    *)
(* 1, 2) to the text.                                                      *)
(***************************************************************************)

\* The nil map.
NilMap == [nil |-> TRUE, m |-> <<>>]

\* val[k] = v
Put(m, k, v) == [i \in DOMAIN m \cup {k} |-> IF i = k THEN v ELSE m[i]]

\* The range loop of lookupDayValue over the day elements of the CLDR
\* list: an element whose type is no key of the canonical map (type 0
\* here) is skipped, a later element of a type replaces an earlier.
RECURSIVE ApplyEntries(_, _)
ApplyEntries(val, lookupTable) ==
    IF lookupTable = <<>> THEN val
    ELSE ApplyEntries(IF Head(lookupTable).type = 0 THEN val
                      ELSE Put(val, Head(lookupTable).type, Head(lookupTable).CharData),
                      Tail(lookupTable))

\* The errors of the generator: nil, and the error of strconv.Atoi for a
\* text that is no number.
NoError == "nil"
ErrSyntax == "invalid syntax"

\* The value of a text of decimal digits read after the value acc.
RECURSIVE ParseDigits(_, _)
ParseDigits(s, acc) ==
    IF s = <<>> THEN acc
    ELSE ParseDigits(Tail(s), acc * 10 + (Head(s) - 48))

\* strconv.Atoi(s): an optional sign and decimal digits (the texts of the
\* model are too short for a range error).
Atoi(s) ==
    LET Unsigned(d, sign) ==
            IF d = <<>> \/ \E i \in DOMAIN d : d[i] < 48 \/ d[i] > 57
            THEN [n |-> 0, err |-> ErrSyntax]
            ELSE [n |-> sign * ParseDigits(d, 0), err |-> NoError]
    IN  IF s # <<>> /\ s[1] = 45 THEN Unsigned(Tail(s), -1)
        ELSE IF s # <<>> /\ s[1] = 43 THEN Unsigned(Tail(s), 1)
        ELSE Unsigned(s, 1)

\* The range loop of lookupMonthValue over the month elements: the type of
\* an element is read as a number m and the text stored under the key
\* stdTab[m-1].  A type that is no number ends the loop with the error of
\* Atoi and a nil map; a number outside 1..12 ends the program (index out
\* of range).  The result is the map, the error and whether it panicked.
RECURSIVE MonthLoop(_, _)
MonthLoop(val, lookupTable) ==
    IF lookupTable = <<>>
    THEN [val |-> [nil |-> FALSE, m |-> val], err |-> NoError, panic |-> FALSE]
    ELSE LET Store(a) ==
                 IF a.err # NoError
                 THEN [val |-> NilMap, err |-> a.err, panic |-> FALSE]
                 ELSE IF a.n - 1 < 0 \/ a.n - 1 >= 12
                 THEN [val |-> NilMap, err |-> NoError, panic |-> TRUE]
                 ELSE MonthLoop(Put(val, a.n, Head(lookupTable).CharData),
                                Tail(lookupTable))
         IN  Store(Atoi(Head(lookupTable).type))

\* lookupMonthValue(curr, stdTab, lookupTable)
lookupMonthValue(curr, lookupTable) ==
    IF curr.nil /\ Len(lookupTable) = 0
    THEN [val |-> NilMap, err |-> NoError, panic |-> FALSE]
    ELSE MonthLoop(curr.m, lookupTable)

\* lookupDayValue(curr, stdTab, lookupTable)
lookupDayValue(curr, lookupTable) ==
    IF curr.nil /\ Len(lookupTable) = 0 THEN NilMap
    ELSE [nil |-> FALSE, m |-> ApplyEntries(curr.m, lookupTable)]

\* strings.ReplaceAll(period.CharData, "\u202F", ""): the text without the
\* byte sequences E2 80 AF (the UTF-8 form of U+202F).
RECURSIVE StripNNBSP(_)
StripNNBSP(s) ==
    IF Len(s) = 0 THEN <<>>
    ELSE IF Len(s) >= 3 /\ SubSeq(s, 1, 3) = <<226, 128, 175>>
    THEN StripNNBSP(SubSeq(s, 4, Len(s)))
    ELSE <<Head(s)>> \o StripNNBSP(Tail(s))

\* The loop over the dayPeriod elements of one dayPeriodWidth: periods is
\* the map built so far; a "variant" of a period already held is skipped.
RECURSIVE PeriodLoop(_, _)
PeriodLoop(periods, list) ==
    IF list = <<>> THEN periods
    ELSE LET period == Head(list)
             known == period.type \in {1, 2}
             skip == known /\ period.type \in DOMAIN periods /\ period.Alt = "variant"
         IN PeriodLoop(IF known /\ ~skip
                       THEN Put(periods, period.type, StripNNBSP(period.CharData))
                       ELSE periods,
                       Tail(list))

\* The loop over the dayPeriodWidth elements of a "format" context: r holds
\* the map periods, and the locale's dayPeriods once two periods are held
\* (the break).
RECURSIVE WidthLoop(_, _)
WidthLoop(r, widths) ==
    IF widths = <<>> \/ r.set THEN r
    ELSE LET Held(periods) ==
                 IF Cardinality(DOMAIN periods) = 2
                 THEN [periods |-> periods, set |-> TRUE]
                 ELSE [periods |-> periods, set |-> FALSE]
         IN WidthLoop(IF Head(widths).type \in {"abbreviated", "narrow"}
                      THEN Held(PeriodLoop(r.periods, Head(widths).DayPeriod))
                      ELSE r,
                      Tail(widths))

\* fillLocaleData(tag, gregorianCalendar, locale): the "format" contexts of
\* the calendar applied to the locale data, the month widths first (the
\* abbreviated one, then the wide one).  The result is the locale data as
\* the call leaves it, the error returned, and whether the call panicked;
\* an error of lookupMonthValue is returned at once, the field it was
\* called for having been set to the nil map.
fillLocaleData(cal, locale) ==
    LET Periods(r) == IF r.set THEN [nil |-> FALSE, m |-> r.periods] ELSE locale.dayPeriods
        Rest(l) ==
            [locale |-> [l EXCEPT !.shortDayNames = lookupDayValue(l.shortDayNames, cal.shortDay),
                                  !.longDayNames = lookupDayValue(l.longDayNames, cal.longDay),
                                  !.dayPeriods = Periods(WidthLoop([periods |-> <<>>, set |-> FALSE],
                                                                   cal.DayPeriodWidth))],
             err |-> NoError, panic |-> FALSE]
        Long(l, lm) ==
            IF lm.panic THEN [locale |-> l, err |-> NoError, panic |-> TRUE]
            ELSE IF lm.err # NoError
            THEN [locale |-> [l EXCEPT !.longMonthNames = lm.val], err |-> lm.err,
                  panic |-> FALSE]
            ELSE Rest([l EXCEPT !.longMonthNames = lm.val])
        Short(sm) ==
            IF sm.panic THEN [locale |-> locale, err |-> NoError, panic |-> TRUE]
            ELSE IF sm.err # NoError
            THEN [locale |-> [locale EXCEPT !.shortMonthNames = sm.val], err |-> sm.err,
                  panic |-> FALSE]
            ELSE Long([locale EXCEPT !.shortMonthNames = sm.val],
                      lookupMonthValue(locale.longMonthNames, cal.longMonth))
    IN  Short(lookupMonthValue(locale.shortMonthNames, cal.shortMonth))

\* a < b for two strings of bytes (the order of Go's string comparison).
RECURSIVE StringLess(_, _)
StringLess(a, b) ==
    IF b = <<>> THEN FALSE
    ELSE IF a = <<>> THEN TRUE
    ELSE IF Head(a) # Head(b) THEN Head(a) < Head(b)
    ELSE StringLess(Tail(a), Tail(b))

\* The text of a language tag.
TagText(tag) ==
    CASE tag = "en" -> <<101, 110>>
      [] tag = "en-001" -> <<101, 110, 45, 48, 48, 49>>
      [] tag = "en-AU" -> <<101, 110, 45, 65, 85>>
      [] tag = "en-US" -> <<101, 110, 45, 85, 83>>
      [] tag = "es" -> <<101, 115>>
      [] tag = "es-ES" -> <<101, 115, 45, 69, 83>>
      [] OTHER -> <<97, 110, 110>>    \* "ann"

\* sort.Strings(tags): the tags in increasing order of their texts.
RECURSIVE sortStrings(_)
sortStrings(tags) ==
    IF tags = <<>> THEN <<>>
    ELSE LET least == CHOOSE i \in DOMAIN tags :
                         \A j \in DOMAIN tags :
                            ~StringLess(TagText(tags[j]), TagText(tags[i]))
         IN  <<tags[least]>>
             \o sortStrings([k \in 1..(Len(tags) - 1) |->
                                IF k < least THEN tags[k] ELSE tags[k + 1]])

\* cldrLocaleData{}
EmptyLocaleData ==
    [shortMonthNames |-> NilMap, longMonthNames |-> NilMap, shortDayNames |-> NilMap,
     longDayNames |-> NilMap, dayPeriods |-> NilMap]

\* (*cldrLocaleData).isEmpty
isEmpty(g) ==
    /\ g.shortDayNames.nil
    /\ g.longDayNames.nil
    /\ g.shortMonthNames.nil
    /\ g.longMonthNames.nil
    /\ g.dayPeriods.nil

\* A validity test that asks for some table only.
isValid_NonEmptyOnly(g) == ~isEmpty(g)

\* (*cldrLocaleData).isValid
isValid(g) ==
    /\ ~isEmpty(g)
    /\ ~(~g.shortDayNames.nil /\ Cardinality(DOMAIN g.shortDayNames.m) # 7)
    /\ ~(~g.longDayNames.nil /\ Cardinality(DOMAIN g.longDayNames.m) # 7)
    /\ ~(~g.shortMonthNames.nil /\ Cardinality(DOMAIN g.shortMonthNames.m) # 12)
    /\ ~(~g.longMonthNames.nil /\ Cardinality(DOMAIN g.longMonthNames.m) # 12)
    /\ ~(~g.dayPeriods.nil /\ Cardinality(DOMAIN g.dayPeriods.m) # 2)

\* buildVariableCodeValue(table, keys): the slice literal written for a map,
\* empty for the nil map, else the text of every canonical key in order
\* ("" for a key the map does not hold).
buildVariableCodeValue(table, n) ==
    IF table.nil THEN <<>>
    ELSE [i \in 1..n |-> IF i \in DOMAIN table.m THEN table.m[i] ELSE <<>>]

\* appendTableVariable(tag, locale): the [5][]string written for a locale,
\* as a record of the five tables.
appendTableVariable(g) ==
    [shortDay |-> buildVariableCodeValue(g.shortDayNames, 7),
     longDay |-> buildVariableCodeValue(g.longDayNames, 7),
     shortMonth |-> buildVariableCodeValue(g.shortMonthNames, 12),
     longMonth |-> buildVariableCodeValue(g.longMonthNames, 12),
     dayPeriods |-> buildVariableCodeValue(g.dayPeriods, 2)]

\* buildLanguageGraph / (*cldrGraph).add: an edge from every tag with a
\* parent to its parent (a tag has one edge at most).
buildLanguageGraph(models, parentOf) ==
    [tag \in {g \in DOMAIN models : parentOf[g] # ""} |-> parentOf[tag]]

\* (*cldrGraph).dfs(from, visited, stack) on r = [visited, stack].
RECURSIVE dfs(_, _, _)
dfs(edges, from, r) ==
    LET v == [visited |-> r.visited \cup {from}, stack |-> r.stack]
        Push(a) == [visited |-> a.visited, stack |-> Append(a.stack, from)]
    IN  Push(IF from \in DOMAIN edges /\ edges[from] \notin v.visited
             THEN dfs(edges, edges[from], v)
             ELSE v)

\* The loop of getSorted over the vertices.
RECURSIVE SortLoop(_, _, _)
SortLoop(edges, vertices, r) ==
    IF vertices = <<>> THEN r
    ELSE SortLoop(edges, Tail(vertices),
                  IF Head(vertices) \in r.visited THEN r
                  ELSE dfs(edges, Head(vertices), r))

\* (*cldrGraph).getSorted
getSorted(edges, vertices) ==
    SortLoop(edges, vertices, [visited |-> {}, stack |-> <<>>]).stack

\* &ErrUnsupportedLocale{lang}
ErrUnsupportedLocale(lang) == [kind |-> "UnsupportedLocale", lang |-> lang]

\* The nil Locale and the nil error of NewDefaultLocale.
NilLocale == [lang |-> "", table |-> <<>>, isNil |-> TRUE]
NilError == [kind |-> "nil", lang |-> ""]

\* A variant of NewDefaultLocale that falls back to the parent of the tag.
NewDefaultLocale_Fallback(tabs, lang, parentOf) ==
    LET key == IF lang \in DOMAIN tabs THEN lang ELSE parentOf[lang]
    IN  IF key \notin DOMAIN tabs
        THEN [locale |-> NilLocale, err |-> ErrUnsupportedLocale(lang)]
        ELSE [locale |-> [lang |-> lang, table |-> tabs[key], isNil |-> FALSE],
              err |-> NilError]

\* NewDefaultLocale(lang) over the generated map tables: the key is
\* lang.String(); parentOf plays no part.
NewDefaultLocale(tabs, lang, parentOf) ==
    IF lang \notin DOMAIN tabs
    THEN [locale |-> NilLocale, err |-> ErrUnsupportedLocale(lang)]
    ELSE [locale |-> [lang |-> lang, table |-> tabs[lang], isNil |-> FALSE],
          err |-> NilError]

(***************************************************************************)
(* CLDR inputs of the generator: per language tag the gregorian calendar   *)
(* of its file, with the "format" lists of the widths the generator reads. *)
(***************************************************************************)

\* The language tags with a file under common/main.
CldrTags == {"en", "en-001", "en-AU", "es"}

\* The language tags asked of NewDefaultLocale.
LangTags == CldrTags \cup {"en-US", "es-ES", "ann"}

\* language.Tag.Parent, "" for language.Und.
Parent ==
    [tag \in LangTags |->
        CASE tag = "en-001" -> "en"
          [] tag = "en-AU" -> "en-001"
          [] tag = "en-US" -> "en"
          [] tag = "es-ES" -> "es"
          [] OTHER -> ""]

\* A CLDR list holding every entry of a table, in the order of the table.
AllOf(tab) == [i \in 1..Len(tab) |-> [type |-> i, CharData |-> tab[i]]]

\* The type attribute of the month element of month i: its decimal text.
MonthType(i) == IF i < 10 THEN <<48 + i>> ELSE <<48 + (i \div 10), 48 + (i % 10)>>

\* A CLDR list of month elements holding every entry of a month table.
AllMonths(tab) == [i \in 1..Len(tab) |-> [type |-> MonthType(i), CharData |-> tab[i]]]

\* A month or day element, a dayPeriod element, a dayPeriodWidth element.
Elem(type, text) == [type |-> type, CharData |-> text]
DayPeriod(type, alt, text) == [type |-> type, Alt |-> alt, CharData |-> text]
DayPeriodWidth(type, periods) == [type |-> type, DayPeriod |-> periods]

\* A file without a gregorian calendar.
NoCalendar ==
    [gregorian |-> FALSE, shortDay |-> <<>>, longDay |-> <<>>, shortMonth |-> <<>>,
     longMonth |-> <<>>, DayPeriodWidth |-> <<>>]

\* en.xml: the canonical tables; the "wide" day periods come first and
\* hold "noon" too.
CalEn ==
    [gregorian |-> TRUE,
     shortDay |-> AllOf(shortDayNamesStd), longDay |-> AllOf(longDayNamesStd),
     shortMonth |-> AllMonths(shortMonthNamesStd), longMonth |-> AllMonths(longMonthNamesStd),
     DayPeriodWidth |->
        << DayPeriodWidth("wide", << DayPeriod(1, "", <<65, 77>>), DayPeriod(2, "", <<80, 77>>) >>),
           DayPeriodWidth("abbreviated",
                          << DayPeriod(1, "", <<65, 77>>), DayPeriod(0, "", <<110, 111, 111, 110>>),
                             DayPeriod(2, "", <<80, 77>>) >>) >>]

\* en_001.xml: "Sept" and lower-case day periods.
Cal001 ==
    [gregorian |-> TRUE, shortDay |-> <<>>, longDay |-> <<>>,
     shortMonth |-> << Elem(MonthType(9), <<83, 101, 112, 116>>) >>, longMonth |-> <<>>,
     DayPeriodWidth |->
        << DayPeriodWidth("abbreviated",
                          << DayPeriod(1, "", <<97, 109>>), DayPeriod(2, "", <<112, 109>>) >>) >>]

\* A file that defines one day period only, and a long day name.
CalAmOnly ==
    [gregorian |-> TRUE, shortDay |-> <<>>, longDay |-> << Elem(1, <<83, 117, 110, 46>>) >>,
     shortMonth |-> <<>>, longMonth |-> <<>>,
     DayPeriodWidth |->
        << DayPeriodWidth("abbreviated", << DayPeriod(1, "", <<97, 46, 109, 46>>) >>),
           DayPeriodWidth("narrow", << DayPeriod(1, "variant", <<65>>) >>) >>]

\* A file whose abbreviated width defines "am" and whose narrow width
\* defines both periods.
CalSplit ==
    [gregorian |-> TRUE, shortDay |-> <<>>, longDay |-> <<>>,
     shortMonth |-> <<>>, longMonth |-> <<>>,
     DayPeriodWidth |->
        << DayPeriodWidth("abbreviated", << DayPeriod(1, "", <<97, 109>>) >>),
           DayPeriodWidth("narrow", << DayPeriod(1, "", <<97>>), DayPeriod(2, "", <<112>>) >>) >>]

\* en_AU.xml: "June", "July", a day element of an unknown type, day periods
\* with variants.
CalAU ==
    [gregorian |-> TRUE, shortDay |-> << Elem(0, <<88, 120>>) >>, longDay |-> <<>>,
     shortMonth |-> << Elem(MonthType(6), <<74, 117, 110, 101>>), Elem(MonthType(7), <<74, 117, 108, 121>>) >>, longMonth |-> <<>>,
     DayPeriodWidth |->
        << DayPeriodWidth("abbreviated",
                          << DayPeriod(1, "", <<97, 109>>), DayPeriod(1, "variant", <<65, 77>>),
                             DayPeriod(2, "variant", <<80, 77>>), DayPeriod(2, "", <<112, 109>>) >>) >>]

\* es.xml: the Spanish tables; the day periods hold U+202F.
CalEs ==
    [gregorian |-> TRUE,
     shortDay |-> AllOf(EsShortDay), longDay |-> AllOf(EsLongDay),
     shortMonth |-> AllMonths(EsShortMonth), longMonth |-> AllMonths(EsLongMonth),
     DayPeriodWidth |->
        << DayPeriodWidth("abbreviated",
                          << DayPeriod(1, "", <<97, 46, 226, 128, 175, 109, 46>>), DayPeriod(2, "", <<112, 46, 226, 128, 175, 109, 46>>) >>) >>]

\* A file of a base language that defines three long month names only.
CalPartial ==
    [gregorian |-> TRUE, shortDay |-> <<>>, longDay |-> <<>>, shortMonth |-> <<>>,
     longMonth |-> SubSeq(AllMonths(EsLongMonth), 1, 3), DayPeriodWidth |-> <<>>]

\* A file with a month element whose type is no number ("x"), after one
\* that is.
CalMonthNoNumber ==
    [gregorian |-> TRUE, shortDay |-> <<>>, longDay |-> <<>>,
     shortMonth |-> << Elem(MonthType(1), <<101, 110, 101>>), Elem(<<120>>, <<120>>) >>,
     longMonth |-> <<>>, DayPeriodWidth |-> <<>>]

\* Files with a month element whose type is a number that is no month
\* ("13", "0").
CalMonth13 ==
    [gregorian |-> TRUE, shortDay |-> <<>>, longDay |-> <<>>, shortMonth |-> <<>>,
     longMonth |-> << Elem(<<49, 51>>, <<120>>) >>, DayPeriodWidth |-> <<>>]

CalMonth0 ==
    [gregorian |-> TRUE, shortDay |-> <<>>, longDay |-> <<>>,
     shortMonth |-> << Elem(<<48>>, <<120>>) >>, longMonth |-> <<>>,
     DayPeriodWidth |-> <<>>]

\* The calendars a file of a tag may hold.
CalendarsOf(tag) ==
    CASE tag = "en" -> {CalEn, NoCalendar}
      [] tag = "en-001" -> {NoCalendar, Cal001, CalAmOnly, CalSplit}
      [] tag = "en-AU" -> {NoCalendar, CalAU, CalAmOnly}
      [] tag = "es" -> {CalEs, CalPartial, CalMonthNoNumber, CalMonth13, CalMonth0}

\* The data sets read from the CLDR archive.
DataSets == {d \in [CldrTags -> UNION {CalendarsOf(g) : g \in CldrTags}] :
                \A g \in CldrTags : d[g] \in CalendarsOf(g)}

\* The orders in which the range over the map of models may visit the tags.
VertexOrders ==
    {o \in [1..Cardinality(CldrTags) -> CldrTags] :
        \A i, j \in DOMAIN o : i # j => o[i] # o[j]}

(***************************************************************************)
(* The state machine: one call of Parse, which runs Translate step by      *)
(* step (one action per case of the switch) and then the standard parser.  *)
(***************************************************************************)
VARIABLES
    locale,        \* the Locale argument (its language tag)
    built,         \* the fields layout and value were built from
    layout,        \* the layout argument
    value,         \* the value argument
    layoutOffset,  \* Translate's layoutOffset
    valueOffset,   \* Translate's valueOffset
    sb,            \* the content of Translate's strings.Builder
    pc,            \* "loop", "returned" (Translate returned), "parsed"
    ret,           \* the string Translate returned
    err,           \* the error Translate returned
    last,          \* the case and the cursors of the last loop iteration
    iter,          \* the number of loop iterations so far
    parsed,        \* what Parse returned
    gpc,           \* the generator: "off", "main", "fatal", "panic", "generated", "resolved"
    data,          \* the models read from the CLDR archive, per tag
    vertices,      \* the order of the vertices of the language graph
    sortedLanguages,    \* the tags main's first loop has yet to visit
    localesData,        \* main's localesData
    nonEmptyLanguages,  \* main's nonEmptyLanguages
    tables,        \* the generated map tables
    lang,          \* the tag given to NewDefaultLocale
    resolved,      \* what NewDefaultLocale returned
    shared,        \* concurrent calls: the locale and the tables they share
    calls          \* concurrent calls: per caller, the arguments and the
                   \* local variables of its call of Translate

\* The variables of a call of Parse, and those of the generator.
callVars == <<locale, built, layout, value, layoutOffset, valueOffset, sb, pc,
              ret, err, last, iter, parsed>>
genVars == <<gpc, data, vertices, sortedLanguages, localesData, nonEmptyLanguages,
             tables, lang, resolved>>

concVars == <<shared, calls>>

vars == <<callVars, genVars, concVars>>

\* The five tables of a locale and the five canonical tables.
TablesOf(loc) ==
    [locale |-> [shortDay |-> ShortDayNames(loc), longDay |-> LongDayNames(loc),
                 shortMonth |-> ShortMonthNames(loc), longMonth |-> LongMonthNames(loc),
                 dayPeriods |-> DayPeriods(loc)],
     std |-> [shortDay |-> shortDayNamesStd, longDay |-> longDayNamesStd,
              shortMonth |-> shortMonthNamesStd, longMonth |-> longMonthNamesStd,
              dayPeriods |-> dayPeriodsStd]]

\* The callers of the concurrent calls.
Callers == {1, 2}

\* A call of Translate that has not started its loop.
NewCall(lay, val) ==
    [layout |-> lay, value |-> val, layoutOffset |-> 0, valueOffset |-> 0,
     sb |-> <<>>, pc |-> "loop", ret |-> <<>>, err |-> NilErr]

\* Parse has not returned.
NotParsed ==
    [fn |-> "", stdCalls |-> 0, stdLayout |-> <<>>, stdValue |-> <<>>, res |-> "",
     err |-> NilErr]

\* No call of Parse runs.
CallOff ==
    /\ locale = "en"
    /\ built = <<>>
    /\ layout = <<>>
    /\ value = <<>>
    /\ layoutOffset = 0
    /\ valueOffset = 0
    /\ sb = <<>>
    /\ pc = "off"
    /\ ret = <<>>
    /\ err = NilErr
    /\ last = [c |-> "", layoutOffset |-> 0, valueOffset |-> 0, sb |-> <<>>,
               written |-> FALSE]
    /\ iter = 0
    /\ parsed = NotParsed

\* No concurrent calls run.
ConcOff ==
    /\ shared = [lang |-> "en", tables |-> TablesOf("en")]
    /\ calls = [i \in Callers |-> NewCall(<<>>, <<>>)]

\* The generator has not run.
GenOff ==
    /\ gpc = "off"
    /\ data = [g \in {} |-> NoCalendar]
    /\ vertices = <<>>
    /\ sortedLanguages = <<>>
    /\ localesData = [g \in {} |-> EmptyLocaleData]
    /\ nonEmptyLanguages = <<>>
    /\ tables = [g \in {} |-> appendTableVariable(EmptyLocaleData)]
    /\ lang = ""
    /\ resolved = [locale |-> NilLocale, err |-> NilError]


Init ==
    /\ locale \in Locales
    /\ built \in Inputs
    /\ layout = LayoutOf(built)
    /\ value = ValueOf(built, locale)
    /\ layoutOffset = 0
    /\ valueOffset = 0
    /\ sb = <<>>
    /\ pc = "loop"
    /\ ret = <<>>
    /\ err = NilErr
    /\ last = [c |-> "", layoutOffset |-> 0, valueOffset |-> 0, sb |-> <<>>,
               written |-> FALSE]
    /\ iter = 0
    /\ parsed = NotParsed
    /\ GenOff
    /\ ConcOff

\* The scanner state held by the variables.
St ==
    [layoutOffset |-> layoutOffset, valueOffset |-> valueOffset, sb |-> sb,
     err |-> NilErr, written |-> FALSE]

\* An iteration that returns what the builder holds when it fails.
Iterate_Partial(c, n) ==
    /\ last' = [c |-> c, layoutOffset |-> layoutOffset,
                valueOffset |-> valueOffset, sb |-> sb, written |-> n.written]
    /\ iter' = iter + 1
    /\ IF n.err # NilErr
       THEN /\ pc' = "returned"
            /\ ret' = sb
            /\ err' = n.err
            /\ UNCHANGED <<layoutOffset, valueOffset, sb>>
       ELSE /\ layoutOffset' = n.layoutOffset
            /\ valueOffset' = n.valueOffset
            /\ sb' = n.sb
            /\ UNCHANGED <<pc, ret, err>>
    /\ UNCHANGED <<locale, built, layout, value, parsed>>
    /\ UNCHANGED <<genVars, concVars>>

\* One loop iteration at a layout byte handled by case c of the switch;
\* n is the scanner state after the iteration.
Iterate(c, n) ==
    /\ last' = [c |-> c, layoutOffset |-> layoutOffset,
                valueOffset |-> valueOffset, sb |-> sb, written |-> n.written]
    /\ iter' = iter + 1
    /\ IF n.err # NilErr
       THEN /\ pc' = "returned"
            /\ ret' = <<>>
            /\ err' = n.err
            /\ UNCHANGED <<layoutOffset, valueOffset, sb>>
       ELSE /\ layoutOffset' = n.layoutOffset
            /\ valueOffset' = n.valueOffset
            /\ sb' = n.sb
            /\ UNCHANGED <<pc, ret, err>>
    /\ UNCHANGED <<locale, built, layout, value, parsed>>
    /\ UNCHANGED <<genVars, concVars>>

InLoop == pc = "loop" /\ layoutOffset < Len(layout)

StepJ == InLoop /\ layout[layoutOffset + 1] = 74 /\ Iterate("J", LoopBody(layout, value, locale, St))

StepM == InLoop /\ layout[layoutOffset + 1] = 77 /\ Iterate("M", LoopBody(layout, value, locale, St))

StepP == InLoop /\ layout[layoutOffset + 1] \in {80, 112} /\ Iterate("P", LoopBody(layout, value, locale, St))

StepUnderscore == InLoop /\ layout[layoutOffset + 1] = 95 /\ Iterate("_", LoopBody(layout, value, locale, St))

StepOther ==
    /\ InLoop
    /\ layout[layoutOffset + 1] \notin {74, 77, 80, 112, 95}
    /\ Iterate("", LoopBody(layout, value, locale, St))

\* The loop ends: Translate returns the builder's content and the tail.
Return ==
    /\ pc = "loop"
    /\ layoutOffset >= Len(layout)
    /\ pc' = "returned"
    /\ ret' = Finish(value, St)
    /\ err' = NilErr
    /\ UNCHANGED <<locale, built, layout, value, layoutOffset, valueOffset, sb,
                   last, iter, parsed>>
    /\ UNCHANGED <<genVars, concVars>>

\* A variant of Parse that hands the value it was given to the standard
\* parser.
ParseReturn_OriginalValue ==
    /\ pc = "returned"
    /\ pc' = "parsed"
    /\ parsed' = Delegate("Parse", layout, [out |-> value, err |-> err])
    /\ UNCHANGED <<locale, built, layout, value, layoutOffset, valueOffset, sb,
                   ret, err, last, iter>>
    /\ UNCHANGED <<genVars, concVars>>

\* Parse: Translate has returned; on an error Parse returns it, otherwise
\* it returns what the standard parser returns.
ParseReturn ==
    /\ pc = "returned"
    /\ pc' = "parsed"
    /\ parsed' = Delegate("Parse", layout, [out |-> ret, err |-> err])
    /\ UNCHANGED <<locale, built, layout, value, layoutOffset, valueOffset, sb,
                   ret, err, last, iter>>
    /\ UNCHANGED <<genVars, concVars>>

\* ParseInLocation: as Parse, with time.ParseInLocation.
ParseInLocationReturn ==
    /\ pc = "returned"
    /\ pc' = "parsed"
    /\ parsed' = Delegate("ParseInLocation", layout, [out |-> ret, err |-> err])
    /\ UNCHANGED <<locale, built, layout, value, layoutOffset, valueOffset, sb,
                   ret, err, last, iter>>
    /\ UNCHANGED <<genVars, concVars>>

Next ==
    \/ StepJ
    \/ StepM
    \/ StepP
    \/ StepUnderscore
    \/ StepOther
    \/ Return
    \/ ParseReturn
    \/ ParseInLocationReturn

Spec == Init /\ [][Next]_vars

\* The same call, seen from before it is made: Call hands Translate its
\* arguments.
InitLive ==
    /\ locale = "en"
    /\ built = <<>>
    /\ layout = <<>>
    /\ value = <<>>
    /\ layoutOffset = 0
    /\ valueOffset = 0
    /\ sb = <<>>
    /\ pc = "idle"
    /\ ret = <<>>
    /\ err = NilErr
    /\ last = [c |-> "", layoutOffset |-> 0, valueOffset |-> 0, sb |-> <<>>,
               written |-> FALSE]
    /\ iter = 0
    /\ parsed = NotParsed
    /\ GenOff
    /\ ConcOff

Call ==
    /\ pc = "idle"
    /\ pc' = "loop"
    /\ locale' \in Locales
    /\ built' \in Inputs
    /\ layout' = LayoutOf(built')
    /\ value' = ValueOf(built', locale')
    /\ UNCHANGED <<layoutOffset, valueOffset, sb, ret, err, last, iter, parsed>>
    /\ UNCHANGED <<genVars, concVars>>

NextLive ==
    \/ Call
    \/ Next

\* A step of the program: it changes pc or counts an iteration of the loop.
\* Every step of NextLive is such a step, and NextLive has a step wherever
\* pc is "idle", "loop" or "returned" (CanStep), so weak fairness of
\* Progress is weak fairness of NextLive, spelt with what a step does to pc
\* and iter alone.
Progress ==
    /\ pc \in {"idle", "loop", "returned"}
    /\ \E p \in {"loop", "returned", "parsed"}, k \in {iter, iter + 1} :
          /\ p # pc \/ k # iter
          /\ pc' = p
          /\ iter' = k

\* NextLive has a step: before the call, at every byte of the layout (one
\* of the five cases of the loop), at the end of the layout, and when
\* Translate has returned.
CanStep ==
    \/ pc = "idle"
    \/ InLoop /\ layout[layoutOffset + 1] \in 0..255
    \/ pc = "loop" /\ layoutOffset >= Len(layout)
    \/ pc = "returned"

\* A program that calls Parse keeps running: the call, the loop of Translate
\* and the return of Parse are sequential code, so a step that stays possible
\* is taken.
SpecLive == InitLive /\ [][NextLive]_vars /\ WF_<<pc, iter>>(Progress)

(***************************************************************************)
(* Concurrent calls: every caller runs Translate with arguments of its own *)
(* on one locale; a step is one loop iteration, or the return, of one      *)
(* call.  Translate declares layoutOffset, valueOffset, sb and err as      *)
(* local variables and assigns nothing else; the tables are read through   *)
(* the methods of the locale and from the package variables.               *)
(***************************************************************************)

\* The arguments of the concurrent calls.
ConcInputs == {b \in Inputs : Len(b) = 1} \cup Scenarios

InitConc ==
    /\ CallOff
    /\ GenOff
    /\ \E loc \in Locales :
          /\ shared = [lang |-> loc, tables |-> TablesOf(loc)]
          /\ \E bs \in [Callers -> ConcInputs] :
                calls = [i \in Callers |->
                           NewCall(LayoutOf(bs[i]), ValueOf(bs[i], loc))]

\* The scanner state of a call.
ScannerOf(cl) ==
    [layoutOffset |-> cl.layoutOffset, valueOffset |-> cl.valueOffset, sb |-> cl.sb,
     err |-> NilErr, written |-> FALSE]

\* The call cl after a loop iteration that left the scanner state n.
AfterIteration(cl, n) ==
    IF n.err # NilErr
    THEN [cl EXCEPT !.pc = "returned", !.ret = <<>>, !.err = n.err]
    ELSE [cl EXCEPT !.layoutOffset = n.layoutOffset, !.valueOffset = n.valueOffset,
                    !.sb = n.sb]

\* A variant in which the value cursor is one variable of the package,
\* written by every call.
CallStep_SharedCursor(i) ==
    /\ calls[i].pc = "loop"
    /\ calls[i].layoutOffset < Len(calls[i].layout)
    /\ calls' = [j \in Callers |->
                   IF j = i
                   THEN AfterIteration(calls[i],
                                       LoopBody(calls[i].layout, calls[i].value,
                                                shared.lang, ScannerOf(calls[i])))
                   ELSE [calls[j] EXCEPT !.valueOffset =
                            AfterIteration(calls[i],
                                           LoopBody(calls[i].layout, calls[i].value,
                                                    shared.lang, ScannerOf(calls[i]))
                                          ).valueOffset]]
    /\ UNCHANGED shared
    /\ UNCHANGED <<callVars, genVars>>

\* One loop iteration of the call of caller i.
CallStep(i) ==
    /\ calls[i].pc = "loop"
    /\ calls[i].layoutOffset < Len(calls[i].layout)
    /\ calls' = [calls EXCEPT ![i] =
                   AfterIteration(calls[i],
                                  LoopBody(calls[i].layout, calls[i].value,
                                           shared.lang, ScannerOf(calls[i])))]
    /\ UNCHANGED shared
    /\ UNCHANGED <<callVars, genVars>>

\* The call of caller i returns after its loop.
CallReturn(i) ==
    /\ calls[i].pc = "loop"
    /\ calls[i].layoutOffset >= Len(calls[i].layout)
    /\ calls' = [calls EXCEPT ![i] =
                   [calls[i] EXCEPT !.pc = "returned",
                                    !.ret = Finish(calls[i].value, ScannerOf(calls[i]))]]
    /\ UNCHANGED shared
    /\ UNCHANGED <<callVars, genVars>>

NextConc ==
    \/ \E i \in Callers : CallStep(i)
    \/ \E i \in Callers : CallReturn(i)

SpecConc == InitConc /\ [][NextConc]_vars

(***************************************************************************)
(* The state machine of the generator: main reads the CLDR data, visits    *)
(* the tags in the order of the language graph, writes the map tables, and *)
(* NewDefaultLocale is then called with some tag.                          *)
(***************************************************************************)

\* main up to its first loop: readCLDRCoreFile and
\* buildLanguageGraph(data).getSorted().
InitTables ==
    /\ CallOff
    /\ gpc = "main"
    /\ data \in DataSets
    /\ vertices \in VertexOrders
    /\ sortedLanguages = getSorted(buildLanguageGraph(data, Parent), vertices)
    /\ localesData = [g \in {} |-> EmptyLocaleData]
    /\ nonEmptyLanguages = <<>>
    /\ tables = [g \in {} |-> appendTableVariable(EmptyLocaleData)]
    /\ lang = ""
    /\ resolved = [locale |-> NilLocale, err |-> NilError]
    /\ ConcOff

\* The locale data main builds for a tag: a clone of the parent's data when
\* the tag has a parent and localesData holds it, filled from the gregorian
\* calendar of the tag's file when there is one.
localeCalendarOf(tag, ldata, model) ==
    LET Fill(start) == IF model.gregorian THEN fillLocaleData(model, start)
                       ELSE [locale |-> start, err |-> NoError, panic |-> FALSE]
    IN  Fill(IF Parent[tag] # "" /\ Parent[tag] \in DOMAIN ldata
             THEN ldata[Parent[tag]]
             ELSE EmptyLocaleData)

\* One iteration of main's first loop, at the first of the tags that are
\* left, r being what fillLocaleData left: a panic or an error (log.Fatal)
\* ends the program, no file written.
MainStep(r) ==
    IF r.panic \/ r.err # NoError
    THEN /\ gpc' = (IF r.panic THEN "panic" ELSE "fatal")
         /\ UNCHANGED <<sortedLanguages, localesData, nonEmptyLanguages>>
    ELSE /\ IF ~isEmpty(r.locale)
            THEN /\ localesData' = Put(localesData, Head(sortedLanguages), r.locale)
                 /\ nonEmptyLanguages' = Append(nonEmptyLanguages, Head(sortedLanguages))
            ELSE UNCHANGED <<localesData, nonEmptyLanguages>>
         /\ sortedLanguages' = Tail(sortedLanguages)
         /\ UNCHANGED gpc

MainLoop ==
    /\ gpc = "main"
    /\ sortedLanguages # <<>>
    /\ MainStep(localeCalendarOf(Head(sortedLanguages), localesData,
                                 data[Head(sortedLanguages)]))
    /\ UNCHANGED <<data, vertices, tables, lang, resolved>>
    /\ UNCHANGED <<callVars, concVars>>

\* sort.Strings(nonEmptyLanguages), main's second loop and
\* appendVariableLinks: a table for every non-empty language whose data is
\* valid.
WriteTables ==
    /\ gpc = "main"
    /\ sortedLanguages = <<>>
    /\ gpc' = "generated"
    /\ nonEmptyLanguages' = sortStrings(nonEmptyLanguages)
    /\ tables' = [g \in {nonEmptyLanguages[i] : i \in
                            {j \in DOMAIN nonEmptyLanguages :
                                isValid(localesData[nonEmptyLanguages[j]])}} |->
                     appendTableVariable(localesData[g])]
    /\ UNCHANGED <<data, vertices, sortedLanguages, localesData, lang, resolved>>
    /\ UNCHANGED <<callVars, concVars>>

\* A call NewDefaultLocale(&tag).
Resolve ==
    /\ gpc = "generated"
    /\ gpc' = "resolved"
    /\ \E tag \in LangTags :
          /\ lang' = tag
          /\ resolved' = NewDefaultLocale(tables, tag, Parent)
    /\ UNCHANGED <<data, vertices, sortedLanguages, localesData, nonEmptyLanguages,
                   tables>>
    /\ UNCHANGED <<callVars, concVars>>

NextTables ==
    \/ MainLoop
    \/ WriteTables
    \/ Resolve

SpecTables == InitTables /\ [][NextTables]_vars

(***************************************************************************)
(* The language graph alone: buildLanguageGraph over the files of an       *)
(* archive, which holds a file for some of the tags, and getSorted.  The   *)
(* range over the map of models visits the tags in any order.              *)
(***************************************************************************)

\* The tags an archive may hold a file for.
GraphTags == CldrTags \cup {"en-US"}

\* The models read from an archive, and the order the graph's vertices were
\* added in.
InitGraph ==
    /\ CallOff
    /\ ConcOff
    /\ gpc = "graph"
    /\ \E files \in SUBSET GraphTags :
          /\ data = [g \in files |-> NoCalendar]
          /\ vertices \in {o \in [1..Cardinality(files) -> files] :
                              \A i, j \in DOMAIN o : i # j => o[i] # o[j]}
    /\ sortedLanguages = <<>>
    /\ localesData = [g \in {} |-> EmptyLocaleData]
    /\ nonEmptyLanguages = <<>>
    /\ tables = [g \in {} |-> appendTableVariable(EmptyLocaleData)]
    /\ lang = ""
    /\ resolved = [locale |-> NilLocale, err |-> NilError]

\* sortedLanguages := buildLanguageGraph(data).getSorted()
Sort ==
    /\ gpc = "graph"
    /\ gpc' = "sorted"
    /\ sortedLanguages' = getSorted(buildLanguageGraph(data, Parent), vertices)
    /\ UNCHANGED <<data, vertices, localesData, nonEmptyLanguages, tables, lang,
                   resolved>>
    /\ UNCHANGED <<callVars, concVars>>

NextGraph == Sort

SpecGraph == InitGraph /\ [][NextGraph]_vars

\* The variables stay within their types, and the step-by-step run agrees
\* with the function Translate.
TypeOK ==
    /\ locale \in Locales
    /\ pc \in {"loop", "returned", "parsed"}
    /\ gpc = "off"
    /\ layoutOffset \in 0..Len(layout)
    /\ valueOffset \in 0..(Len(value) + 1)
    /\ pc # "loop" => [out |-> ret, err |-> err] = Translate(layout, value, locale)
    /\ pc = "parsed" => parsed \in {Parse(layout, value, locale),
                                    ParseInLocation(layout, value, locale)}

(***************************************************************************)
(* What the claims speak of.                                               *)
(***************************************************************************)

\* The token kind written at offset lo of the layout, read off the layout
\* text alone ("" when no token of a table starts there).
TokenKindAt(lay, lo) ==
    IF Len(lay) >= lo + 7 /\ Slice(lay, lo, lo + 7) = January THEN "longMonth"
    ELSE IF Len(lay) >= lo + 6 /\ Slice(lay, lo, lo + 6) = Monday THEN "longDay"
    ELSE IF Len(lay) >= lo + 3 /\ Slice(lay, lo, lo + 3) \in {Jan, Mon}
            /\ (Len(lay) = lo + 3 \/ lay[lo + 4] < 97 \/ lay[lo + 4] > 122)
    THEN (IF lay[lo + 1] = 74 THEN "shortMonth" ELSE "shortDay")
    ELSE IF Len(lay) >= lo + 2 /\ lay[lo + 1] \in {80, 112} /\ lay[lo + 2] \in {77, 109}
    THEN "dayPeriods"
    ELSE ""

\* The last loop iteration translated a token: the switch wrote for a layout
\* byte 'J', 'M', 'P' or 'p'.
TokenTranslated == last.c \in {"J", "M", "P"} /\ last.written

\* The white space bytes the last iteration skipped in the value.
LastSkipped == SkipSpaces(value, last.valueOffset) - last.valueOffset

\* The indices of the entries of table tab that the value text at offset
\* at holds (in any case).
MatchingAt(tab, at) ==
    {i \in 1..Len(tab) :
        /\ at + Len(tab[i]) <= Len(value)
        /\ EqualFold(Slice(value, at, at + Len(tab[i])), tab[i])}

\* The scenarios of the documentation, as strings.
LayoutMonday2 == <<77, 111, 110, 100, 97, 121, 32, 95, 50, 32, 50, 48, 48, 54, 32, 50, 55>>
LayoutMondayJan ==
    <<77, 111, 110, 100, 97, 121, 32, 74, 97, 110, 32, 95, 50, 32, 50, 48, 48, 54,
      32, 49, 53, 58, 48, 52, 58, 48, 53>>
ValueViernes == <<118, 105, 101, 114, 110, 101, 115, 32, 49, 53, 32, 50, 48, 48, 54, 32, 50, 55>>
ValueLunesOct ==
    <<108, 117, 110, 101, 115, 32, 111, 99, 116, 32, 50, 55, 32, 49, 57, 56, 56,
      32, 49, 49, 58, 53, 51, 58, 50, 57>>
OutFriday == <<70, 114, 105, 100, 97, 121, 32, 49, 53, 32, 50, 48, 48, 54, 32, 50, 55>>
OutMondayOct ==
    <<77, 111, 110, 100, 97, 121, 32, 79, 99, 116, 32, 50, 55, 32, 49, 57, 56, 56,
      32, 49, 49, 58, 53, 51, 58, 50, 57>>

(***************************************************************************)
(* C1.  Translate replaces each localized token by the canonical entry at  *)
(* the same table index and leaves everything else as it is.  After an     *)
(* iteration that translated a token of kind k, for every index i whose    *)
(* entry of the locale's table of k the value holds at the token position, *)
(* the output has grown by the value bytes before the token and by entry i *)
(* of the canonical table of k; after any other iteration it has grown by  *)
(* the value bytes the iteration consumed; the string returned is the      *)
(* output followed by the rest of the value; and the two documented        *)
(* Spanish scenarios give "Friday 15 2006 27" and                          *)
(* "Monday Oct 27 1988 11:53:29".                                          *)
(***************************************************************************)
C1_TokensReplaced ==
    /\ TokenTranslated =>
         /\ TokenKindAt(layout, last.layoutOffset) # ""
         /\ \A i \in MatchingAt(LocaleTab(locale, TokenKindAt(layout, last.layoutOffset)),
                                last.valueOffset + LastSkipped) :
               sb = last.sb
                      \o Slice(value, last.valueOffset, last.valueOffset + LastSkipped)
                      \o StdTab(TokenKindAt(layout, last.layoutOffset))[i]
    /\ (iter > 0 /\ err = NilErr /\ ~TokenTranslated) =>
         /\ valueOffset <= Len(value)
         /\ sb = last.sb \o Slice(value, last.valueOffset, valueOffset)
    /\ (pc = "returned" /\ err = NilErr) =>
         /\ valueOffset <= Len(value)
         /\ ret = sb \o SliceFrom(value, valueOffset)
    /\ (pc = "returned" /\ locale = "es" /\ layout = LayoutMonday2 /\ value = ValueViernes)
         => (ret = OutFriday /\ err = NilErr)
    /\ (pc = "returned" /\ locale = "es" /\ layout = LayoutMondayJan /\ value = ValueLunesOct)
         => (ret = OutMondayOct /\ err = NilErr)

\* What the code does for a token: the builder grows by one space for
\* every white space byte skipped and by the canonical entry of some index
\* whose locale entry the value holds at the token position; the two
\* documented scenarios give the documented strings.
C1_SameIndex ==
    /\ TokenTranslated =>
         LET k == TokenKindAt(layout, last.layoutOffset)
             at == last.valueOffset + LastSkipped
         IN  /\ k # ""
             /\ \E i \in MatchingAt(LocaleTab(locale, k), at) :
                   /\ valueOffset = at + Len(LocaleTab(locale, k)[i])
                   /\ sb = last.sb \o Spaces(LastSkipped) \o StdTab(k)[i]
    /\ (pc = "returned" /\ locale = "es" /\ layout = LayoutMonday2 /\ value = ValueViernes)
         => (ret = OutFriday /\ err = NilErr)
    /\ (pc = "returned" /\ locale = "es" /\ layout = LayoutMondayJan /\ value = ValueLunesOct)
         => (ret = OutMondayOct /\ err = NilErr)

\* A token was translated after a tab, and the output holds a space in
\* place of the tab.
C1_WitnessWhiteSpace ==
    /\ TokenTranslated
    /\ LastSkipped = 1
    /\ value[last.valueOffset + 1] = 9
    /\ \E i \in MatchingAt(LocaleTab(locale, TokenKindAt(layout, last.layoutOffset)),
                           last.valueOffset + 1) :
          sb = last.sb \o <<32>> \o StdTab(TokenKindAt(layout, last.layoutOffset))[i]

\* A byte outside the tokens was written as two bytes.
C1_WitnessLiteral ==
    /\ iter > 0
    /\ err = NilErr
    /\ last.c = ""
    /\ valueOffset <= Len(value)
    /\ valueOffset = last.valueOffset + 2
    /\ Len(sb) = Len(last.sb) + 2
    /\ sb # last.sb \o Slice(value, last.valueOffset, valueOffset)

\* A Spanish weekday was translated in the scenario "Monday Jan _2 ...",
\* and the call returned its documented result.
C1_Witness ==
    /\ pc = "returned"
    /\ locale = "es"
    /\ layout = LayoutMondayJan
    /\ value = ValueLunesOct
    /\ ret = OutMondayOct

(***************************************************************************)
(* C2.  Round trip across locales.                                         *)
(***************************************************************************)

\* The layout uses only token kinds the locale supports.
Supported(fs, loc) ==
    \A k \in 1..Len(fs) : fs[k].tab # "" => Len(LocaleTab(loc, fs[k].tab)) > 0

\* The value is the layout with a table entry written at each token
\* position: the token fields hold the entry as the table spells it and
\* nothing before it, the other fields repeat the layout text.
BuiltFromLayout(fs) ==
    \A k \in 1..Len(fs) :
        IF fs[k].tab # "" THEN fs[k].cs = "id" /\ fs[k].pre = <<>>
        ELSE fs[k].txt = fs[k].lay

\* The layout text outside the token fields is ASCII.
AsciiText(fs) ==
    \A k \in 1..Len(fs) :
        fs[k].tab = "" => \A j \in 1..Len(fs[k].lay) : fs[k].lay[j] < 128

\* The layout bytes before field k.
RECURSIVE LayoutBefore(_, _)
LayoutBefore(fs, k) ==
    IF k <= 1 THEN 0 ELSE LayoutBefore(fs, k - 1) + Len(fs[k - 1].lay)

\* Every token field is a token of its kind in the layout (a "Mon" that a
\* lower-case letter follows is none).
TokensStand(fs) ==
    \A k \in 1..Len(fs) :
        fs[k].tab # "" => TokenKindAt(LayoutOf(fs), LayoutBefore(fs, k)) = fs[k].tab

\* The input has a token field.
HasToken(fs) == \E k \in 1..Len(fs) : fs[k].tab # ""

\* What a call returns, without the fields of the error that quote the
\* arguments: the string and the kind of the error.
Outcome(t) == [out |-> t.out, err |-> t.err.kind]

Unambiguous(tab) ==
    \A i \in 1..Len(tab) :
        /\ Len(tab[i]) > 0
        /\ ~IsSpace(tab[i][1])
        /\ \A j \in 1..Len(tab) :
              (j # i /\ Len(tab[j]) >= Len(tab[i]))
                => ~EqualFold(SubSeq(tab[j], 1, Len(tab[i])), tab[i])

\* Every table of the locale that the layout has a token of is unambiguous.
UnambiguousTables(fs, loc) ==
    \A k \in 1..Len(fs) :
        fs[k].tab # "" => Unambiguous(LocaleTab(loc, fs[k].tab))

C2_WitnessTurkish ==
    /\ pc = "returned"
    /\ locale = "tr"
    /\ ~Unambiguous(LongDayNames("tr"))
    /\ BuiltFromLayout(built)
    /\ TokensStand(built)
    /\ HasToken(built)
    /\ UnambiguousTables(built, locale)
    /\ err = NilErr
    /\ ret # value
    /\ ret = Translate(layout, ValueOf(built, "en"), "en").out

C2_WitnessNotAscii ==
    /\ pc = "returned"
    /\ locale \in {"es", "tr"}
    /\ BuiltFromLayout(built)
    /\ TokensStand(built)
    /\ HasToken(built)
    /\ UnambiguousTables(built, locale)
    /\ ~AsciiText(built)
    /\ Outcome([out |-> ret, err |-> err])
         = Outcome(Translate(layout, ValueOf(built, "en"), "en"))

(***************************************************************************)
(* C3.  Idempotence on English: under the English locale, a value that is  *)
(* the layout with a canonical entry written at each token position is     *)
(* returned unchanged, without an error, and translating the result again  *)
(* returns it once more.                                                   *)
(***************************************************************************)
C3_Idempotent ==
    (pc = "returned" /\ locale = "en" /\ BuiltFromLayout(built) /\ TokensStand(built))
      => /\ err = NilErr
         /\ ret = value
         /\ Translate(layout, ret, "en") = [out |-> ret, err |-> NilErr]

(***************************************************************************)
(* C4.  White space is kept: the white space bytes of the value that stand *)
(* before a translated token or before a '_2', '_2006' or '__2' field are  *)
(* the bytes the builder grew by, whatever white space they are; and the   *)
(* documented scenario with runs of spaces returns                         *)
(* "    Friday   15  2006 27 ".                                            *)
(***************************************************************************)
ValueSpaced ==
    <<32, 32, 32, 32, 118, 105, 101, 114, 110, 101, 115, 32, 32, 32, 49, 53, 32, 32,
      50, 48, 48, 54, 32, 50, 55, 32>>
OutSpaced ==
    <<32, 32, 32, 32, 70, 114, 105, 100, 97, 121, 32, 32, 32, 49, 53, 32, 32, 50, 48,
      48, 54, 32, 50, 55, 32>>

C4_WhitespaceKept ==
    /\ (last.c \in {"J", "M", "P", "_"} /\ last.written /\ err = NilErr)
         => SubSeq(sb, Len(last.sb) + 1, Len(last.sb) + LastSkipped)
              = Slice(value, last.valueOffset, last.valueOffset + LastSkipped)
    /\ (pc = "returned" /\ locale = "es" /\ layout = LayoutMonday2 /\ value = ValueSpaced)
         => (ret = OutSpaced /\ err = NilErr)

(***************************************************************************)
(* C5.  A layout without a token ('Jan', 'January', 'Mon', 'Monday', 'PM', *)
(* 'pm', '_2', '_2006', '__2') returns the value as it is, byte for byte,  *)
(* and no error.                                                           *)
(***************************************************************************)
NoToken(lay) ==
    \A lo \in 0..(Len(lay) - 1) :
        /\ TokenKindAt(lay, lo) = ""
        /\ ~(lay[lo + 1] = 95 /\ Len(lay) >= lo + 2 /\ lay[lo + 2] = 50)

C5_NoTokenIdentity ==
    (pc = "returned" /\ NoToken(layout)) => (err = NilErr /\ ret = value)

(***************************************************************************)
(* C6.  The value's text is matched in any case: a value that holds a case *)
(* variant of a table entry (here the entry in upper case or in lower      *)
(* case) at a token position translates to what the value holding the      *)
(* entry itself translates to.                                             *)
(***************************************************************************)

\* The fields with every token field's entry as the table spells it.
PlainCase(fs) == [k \in 1..Len(fs) |-> [fs[k] EXCEPT !.cs = "id"]]

\* The input has a token field whose entry is written in another case.
HasCaseVariant(fs) ==
    \E k \in 1..Len(fs) :
        fs[k].tab # "" /\ ValuePiece(fs[k], locale) # ValuePiece(PlainCase(fs)[k], locale)

C6_CaseInsensitive ==
    (pc = "returned" /\ TokensStand(built))
      => Outcome([out |-> ret, err |-> err])
           = Outcome(Translate(layout, ValueOf(PlainCase(built), locale), locale))

(***************************************************************************)
(* C7.  The case of the letters of a day-period token in the layout.       *)
(***************************************************************************)

\* The four spellings of the day-period token: "PM", "pm", "Pm", "pM".
DayPeriodSpellings == {<<80, 77>>, <<112, 109>>, <<80, 109>>, <<112, 77>>}

\* The offsets of the layout where a day-period token stands.
DayPeriodStarts(lay) ==
    {i \in 0..(Len(lay) - 2) : TokenKindAt(lay, i) = "dayPeriods"}

\* The layout with the two bytes at offset i spelled sp.
Respell(lay, i, sp) ==
    [k \in 1..Len(lay) |-> IF k = i + 1 THEN sp[1] ELSE IF k = i + 2 THEN sp[2] ELSE lay[k]]

\* The three layout bytes before offset i spell "Jan" or "Mon".
AfterShortName(lay, i) == i >= 3 /\ Slice(lay, i - 3, i) \in {Jan, Mon}

\* The original statement: respelling any day-period token of the layout in
\* another case gives the same result, for every layout.
C7_AnyLayout ==
    pc = "returned"
      => \A i \in DayPeriodStarts(layout) : \A sp \in DayPeriodSpellings :
            Translate(Respell(layout, i, sp), value, locale) = [out |-> ret, err |-> err]

(***************************************************************************)
(* C7 (amended).  Respelling in another case a day-period token of the     *)
(* layout that does not directly follow the letters "Jan" or "Mon" gives   *)
(* the same result: the same string or the same error.                     *)
(***************************************************************************)
C7_LayoutCase ==
    pc = "returned"
      => \A i \in DayPeriodStarts(layout) : \A sp \in DayPeriodSpellings :
            ~AfterShortName(layout, i)
              => Translate(Respell(layout, i, sp), value, locale)
                   = [out |-> ret, err |-> err]

\* The Spanish "p.m." was translated under the layout "pm", and the layout
\* "Pm" gives the same "PM".
C7_Witness ==
    /\ pc = "returned"
    /\ locale = "es"
    /\ layout = <<112, 109>>
    /\ value = EsDayPeriods[2]
    /\ ret = dayPeriodsStd[2]
    /\ Translate(<<80, 109>>, value, locale).out = ret

(***************************************************************************)
(* C8.  Parse succeeds for a layout with a day-period token in either      *)
(* case: when the value is the layout with an entry of the locale, in any  *)
(* case, at each token position, Parse returns no error.                   *)
(***************************************************************************)

\* The input has a day-period token.
HasDayPeriod(fs) == \E k \in 1..Len(fs) : fs[k].tab = "dayPeriods"

\* The value is the layout with a table entry, in some case, at each token
\* position, and the rest of the layout is ASCII text repeated in the value.
EntriesInAnyCase(fs) ==
    /\ TokensStand(fs)
    /\ AsciiText(fs)
    /\ \A k \in 1..Len(fs) :
          IF fs[k].tab # "" THEN fs[k].pre = <<>> ELSE fs[k].txt = fs[k].lay

C8_ParseAccepts ==
    (pc = "parsed" /\ HasDayPeriod(built) /\ EntriesInAnyCase(built)
       /\ Supported(built, locale) /\ err = NilErr /\ StdModelled(layout))
      => (parsed.res = "ok" /\ parsed.err = NilErr)

(***************************************************************************)
(* C9.  Longest match: when a token was translated, the entry taken is as  *)
(* long as the longest entry of the locale table that the value holds at   *)
(* the cursor, in whichever order the table lists the entries; its         *)
(* canonical entry was written and its full length consumed.               *)
(***************************************************************************)
C9_LongestMatch ==
    TokenTranslated =>
        LET k == TokenKindAt(layout, last.layoutOffset)
            at == last.valueOffset + LastSkipped
            tab == LocaleTab(locale, k)
        IN  \E i \in MatchingAt(tab, at) :
               /\ \A j \in MatchingAt(tab, at) : Len(tab[j]) <= Len(tab[i])
               /\ valueOffset = at + Len(tab[i])
               /\ SubSeq(sb, Len(last.sb) + LastSkipped + 1, Len(sb)) = StdTab(k)[i]

\* Two entries matched and the longer one was taken: it comes second in its
\* table ("Ma", "Mar"; "Pazar", "Pazartesi") or first ("wxy", "wx").
LongerTaken(first) ==
    /\ TokenTranslated
    /\ LET k == TokenKindAt(layout, last.layoutOffset)
           at == last.valueOffset + LastSkipped
           tab == LocaleTab(locale, k)
       IN  \E i, j \in MatchingAt(tab, at) :
              /\ Len(tab[j]) < Len(tab[i])
              /\ Len(tab[j]) > 0
              /\ (i < j) = first
              /\ valueOffset = at + Len(tab[i])
              /\ SubSeq(sb, Len(last.sb) + LastSkipped + 1, Len(sb)) = StdTab(k)[i]

C9_Witness == LongerTaken(FALSE) /\ locale = "syn" /\ layout = Jan

C9_WitnessLongerFirst == LongerTaken(TRUE)

(***************************************************************************)
(* C10.  Classification at a layout byte 'J' or 'M': the long token when   *)
(* the layout spells "January" ("Monday") there, else the short token when *)
(* it spells "Jan" ("Mon") and no lower-case ASCII letter follows, else a  *)
(* literal byte.  A token moves the layout cursor over its whole length    *)
(* and writes an entry of the canonical table of its own kind, or fails    *)
(* with an error that names it; a literal moves the layout cursor by one   *)
(* byte and copies one value byte.                                         *)
(***************************************************************************)

\* The layout text of a token kind.
TokenText(k) ==
    CASE k = "longMonth" -> January
      [] k = "shortMonth" -> Jan
      [] k = "longDay" -> Monday
      [] k = "shortDay" -> Mon
      [] OTHER -> PM

C10_Classification ==
    last.c \in {"J", "M"} =>
        LET k == TokenKindAt(layout, last.layoutOffset)
            at == last.valueOffset + LastSkipped
        IN  IF k = ""
            THEN /\ ~last.written
                 /\ err = NilErr
                 /\ layoutOffset = last.layoutOffset + 1
                 /\ sb = last.sb \o (IF last.valueOffset < Len(value)
                                     THEN Utf8(value[last.valueOffset + 1])
                                     ELSE <<>>)
            ELSE IF err # NilErr
            THEN /\ err.LayoutElem = TokenText(k)
                 /\ \/ err.kind = "ErrUnsupportedLayoutElem" /\ Len(LocaleTab(locale, k)) = 0
                    \/ err.kind = "ErrLayoutMismatch" /\ MatchingAt(LocaleTab(locale, k), at) = {}
            ELSE /\ last.written
                 /\ layoutOffset = last.layoutOffset + Len(TokenText(k))
                 /\ \E i \in MatchingAt(LocaleTab(locale, k), at) :
                       SubSeq(sb, Len(last.sb) + LastSkipped + 1, Len(sb)) = StdTab(k)[i]

\* The 'J' of "Janet" was handled as a literal: one value byte copied, the
\* layout cursor moved by one.
C10_Witness ==
    /\ last.c = "J"
    /\ Len(layout) >= 5
    /\ Slice(layout, 0, 5) = <<74, 97, 110, 101, 116>>
    /\ last.layoutOffset = 0
    /\ layoutOffset = 1
    /\ sb = <<74>>
    /\ ~last.written

\* The "January" of a layout was translated with the long month table.
C10_WitnessLong ==
    /\ last.c = "J"
    /\ last.written
    /\ locale = "es"
    /\ Slice(layout, last.layoutOffset, layoutOffset) = January
    /\ sb = longMonthNamesStd[2]

(***************************************************************************)
(* C11.  Unsupported layout element: when the scanner stood at a token     *)
(* whose table in the locale is empty, the call has failed with            *)
(* ErrUnsupportedLayoutElem naming the token ("PM" for a day-period token  *)
(* of either case) and the locale's language tag, whatever the value holds *)
(* there.                                                                  *)
(***************************************************************************)

\* The last iteration stood at a token whose locale table is empty.
AtUnsupportedToken ==
    /\ last.c \in {"J", "M", "P"}
    /\ TokenKindAt(layout, last.layoutOffset) # ""
    /\ Len(LocaleTab(locale, TokenKindAt(layout, last.layoutOffset))) = 0

C11_Unsupported ==
    AtUnsupportedToken =>
        /\ pc # "loop"
        /\ err = newUnsupportedLayoutElemError(
                     TokenText(TokenKindAt(layout, last.layoutOffset)), locale)
        /\ err.Language = Language(locale)

\* The layout "PM" met an empty value under a locale without day periods.
C11_Witness ==
    /\ AtUnsupportedToken
    /\ locale = "syn"
    /\ layout = PM
    /\ value = <<>>
    /\ err.kind = "ErrUnsupportedLayoutElem"
    /\ err.LayoutElem = PM
    /\ err.Language = "syn"

\* A lower-case day-period token, after text already written, is reported
\* as "PM".
C11_WitnessLowerCase ==
    /\ AtUnsupportedToken
    /\ last.layoutOffset > 0
    /\ Slice(layout, last.layoutOffset, last.layoutOffset + 2) = <<112, 109>>
    /\ err.LayoutElem = PM

(***************************************************************************)
(* C12.  Layout mismatch.                                                  *)
(***************************************************************************)

\* The last iteration stood at a token with a non-empty locale table none
\* of whose entries the value holds at the cursor, white space skipped.
AtMismatch ==
    /\ last.c \in {"J", "M", "P"}
    /\ TokenKindAt(layout, last.layoutOffset) # ""
    /\ Len(LocaleTab(locale, TokenKindAt(layout, last.layoutOffset))) > 0
    /\ MatchingAt(LocaleTab(locale, TokenKindAt(layout, last.layoutOffset)),
                  last.valueOffset + LastSkipped) = {}

\* The original statement: the error carries the token name and the value
\* text at the cursor where matching failed.
C12_MismatchAtCursor ==
    AtMismatch =>
        /\ pc # "loop"
        /\ err.kind = "ErrLayoutMismatch"
        /\ err.LayoutElem = TokenText(TokenKindAt(layout, last.layoutOffset))
        /\ err.Value \in {SliceFrom(value, last.valueOffset),
                          SliceFrom(value, last.valueOffset + LastSkipped)}

(***************************************************************************)
(* C12 (amended).  When the value text at the cursor, white space skipped, *)
(* matches no entry of the non-empty table of the current token, the call  *)
(* has failed with ErrLayoutMismatch carrying the token name and the whole *)
(* value argument; layout "Mon January 03:04:05PM" with value              *)
(* "February Mon 03:04:05PM" fails on the token "Mon".                     *)
(***************************************************************************)
C12_Mismatch ==
    /\ AtMismatch =>
         /\ pc # "loop"
         /\ err = newLayoutMismatchError(
                      TokenText(TokenKindAt(layout, last.layoutOffset)), value)
    /\ (pc # "loop" /\ locale = "en" /\ layout = LayoutMismatched
          /\ value = ValueMismatched)
         => err = newLayoutMismatchError(Mon, ValueMismatched)

\* A mismatch after the cursor had moved: the error holds the whole value.
C12_Witness ==
    /\ AtMismatch
    /\ last.valueOffset > 0
    /\ err.kind = "ErrLayoutMismatch"
    /\ err.Value = value
    /\ err.Value # SliceFrom(value, last.valueOffset)

\* The scenario of TestLayoutMismatch failed on "Mon".
C12_WitnessScenario ==
    /\ AtMismatch
    /\ locale = "en"
    /\ layout = LayoutMismatched
    /\ value = ValueMismatched
    /\ err = newLayoutMismatchError(Mon, ValueMismatched)

(***************************************************************************)
(* C13.  No partial output: a call that returned an error returned the     *)
(* empty string, whatever the builder held.                                *)
(***************************************************************************)
C13_NoPartialOutput ==
    (pc # "loop" /\ err # NilErr)
      => (ret = <<>> /\ Translate(layout, value, locale).out = <<>>)

\* A call failed after tokens or literals had been written; it returned the
\* empty string.
C13_Witness ==
    /\ pc = "returned"
    /\ err.kind \in {"ErrLayoutMismatch", "ErrUnsupportedLayoutElem"}
    /\ Len(sb) > 0
    /\ ret = <<>>

(***************************************************************************)
(* C14: NewDefaultLocale resolves a tag by exact match on the generated    *)
(* map tables: when the tag is a key of the map it returns a locale with   *)
(* that tag and the five tables of that key, and no error; otherwise it    *)
(* returns no locale and ErrUnsupportedLocale for the tag, also when the   *)
(* parent of the tag is a key of the map.                                  *)
(***************************************************************************)
TableFields == {"shortDay", "longDay", "shortMonth", "longMonth", "dayPeriods"}

C14_ExactMatch ==
    gpc = "resolved" =>
        IF lang \in DOMAIN tables
        THEN /\ ~resolved.locale.isNil
             /\ resolved.err = NilError
             /\ resolved.locale.lang = lang
             /\ DOMAIN resolved.locale.table = TableFields
             /\ \A f \in TableFields : resolved.locale.table[f] = tables[lang][f]
        ELSE /\ resolved.locale.isNil
             /\ resolved.err = ErrUnsupportedLocale(lang)

\* A tag without a table whose parent has one is refused.
C14_Witness ==
    /\ gpc = "resolved"
    /\ lang \notin DOMAIN tables
    /\ Parent[lang] \in DOMAIN tables
    /\ resolved.locale.isNil
    /\ resolved.err = ErrUnsupportedLocale(lang)

\* A tag with a table of its own, other than its parent's, is resolved.
C14_WitnessFound ==
    /\ gpc = "resolved"
    /\ lang = "en-001"
    /\ lang \in DOMAIN tables
    /\ Parent[lang] \in DOMAIN tables
    /\ tables[lang] # tables[Parent[lang]]
    /\ resolved.locale.table = tables[lang]

(***************************************************************************)
(* C15: Parse and ParseInLocation run Translate first.  When it fails they *)
(* return the zero time and the error of Translate, and the standard       *)
(* parser is not called; when it succeeds the standard parser is called    *)
(* once, with the layout as given and the translated value, and its        *)
(* outcome is returned as it is.                                           *)
(***************************************************************************)
C15_Delegation ==
    pc = "parsed" =>
        /\ parsed.fn \in {"Parse", "ParseInLocation"}
        /\ IF Translate(layout, value, locale).err # NilErr
           THEN /\ parsed.stdCalls = 0
                /\ parsed.res = "err"
                /\ parsed.err = Translate(layout, value, locale).err
           ELSE /\ parsed.stdCalls = 1
                /\ parsed.stdLayout = layout
                /\ parsed.stdValue = Translate(layout, value, locale).out
                /\ parsed.res = timeParse(layout, Translate(layout, value, locale).out)
                /\ parsed.err = NilErr

\* Parse handed a translated value, other than the one it was given, to the
\* standard parser, which accepted it.
C15_Witness ==
    /\ pc = "parsed"
    /\ parsed.fn = "Parse"
    /\ parsed.stdCalls = 1
    /\ parsed.stdValue # value
    /\ HasToken(built)
    /\ parsed.res = "ok"

\* ParseInLocation returned the error of Translate.
C15_WitnessError ==
    /\ pc = "parsed"
    /\ parsed.fn = "ParseInLocation"
    /\ parsed.stdCalls = 0
    /\ parsed.err.kind = "ErrLayoutMismatch"

\* The standard parser refused the translated value, and Parse returned that.
C15_WitnessStdError ==
    /\ pc = "parsed"
    /\ parsed.stdCalls = 1
    /\ parsed.res = "err"
    /\ parsed.err = NilErr

(***************************************************************************)
(* C16: Translate terminates: every iteration of the scanning loop         *)
(* strictly increases the layout cursor, by the token length for a         *)
(* recognised token and by one otherwise, so the loop runs at most         *)
(* len(layout) times.                                                      *)
(***************************************************************************)

\* The length of the padding marker at offset lo of the layout (0 if none).
MarkerLenAt(lay, lo) ==
    IF Len(lay) >= lo + 5 /\ Slice(lay, lo, lo + 5) = <<95, 50, 48, 48, 54>> THEN 5
    ELSE IF Len(lay) >= lo + 2 /\ Slice(lay, lo, lo + 2) = <<95, 50>> THEN 2
    ELSE IF Len(lay) >= lo + 3 /\ Slice(lay, lo, lo + 3) = <<95, 95, 50>> THEN 3
    ELSE 0

\* The length of the token or marker the layout holds where the last
\* iteration started.
LastTokenLen ==
    IF last.c = "_" THEN MarkerLenAt(layout, last.layoutOffset)
    ELSE Len(TokenText(TokenKindAt(layout, last.layoutOffset)))

\* The last iteration went on: how far it moved the layout cursor.
LastAdvance == layoutOffset - last.layoutOffset

\* The second test of case '_' may take the bytes after the marker the last
\* iteration started at: the second and third byte from there are "_2".
SecondTestAfterMarker ==
    /\ last.c = "_"
    /\ LastTokenLen \in {2, 5}
    /\ Len(layout) >= last.layoutOffset + LastTokenLen + 3
    /\ Slice(layout, last.layoutOffset + LastTokenLen + 1,
             last.layoutOffset + LastTokenLen + 3) = <<95, 50>>

\* C16: every iteration that went on moved the layout cursor by the length
\* of the token or marker when the switch wrote for one, by one otherwise.
C16_OneTokenAdvance ==
    (iter > 0 /\ err = NilErr) =>
        LastAdvance = (IF last.written THEN LastTokenLen ELSE 1)

\* What the code does: the cursor moves by one when the switch wrote
\* nothing, by the length of the token or marker it wrote, and by three
\* more when the second test of case '_' took the bytes after a marker "_2"
\* or "_2006" for "__2"; the loop runs at most len(layout) times and every
\* call returns.
C16_Advance ==
    (iter > 0 /\ err = NilErr) =>
        /\ LastAdvance >= 1
        /\ ~last.written => LastAdvance = 1
        /\ last.written =>
              \/ LastAdvance = LastTokenLen
              \/ SecondTestAfterMarker /\ LastAdvance = LastTokenLen + 3

C16_Terminates ==
    /\ [](C16_Advance /\ iter <= Len(layout) /\ layoutOffset <= Len(layout))
    /\ [](pc \in {"idle", "loop", "returned"} => CanStep)
    /\ <>(pc \in {"returned", "parsed"})

\* A call returned after as many iterations as the layout has bytes, and
\* another after fewer.
C16_Witness ==
    /\ pc # "loop"
    /\ err = NilErr
    /\ iter = Len(layout)
    /\ iter >= 2

C16_WitnessToken ==
    /\ pc # "loop"
    /\ err = NilErr
    /\ last.written
    /\ iter >= 2
    /\ iter < Len(layout)

\* One iteration took two markers: it moved the cursor by five bytes from
\* a marker "_2".
C16_WitnessTwoMarkers ==
    /\ last.c = "_"
    /\ LastTokenLen = 2
    /\ LastAdvance = 5
    /\ err = NilErr

(***************************************************************************)
(* C17: concurrent calls of Translate on one locale.  No step writes the   *)
(* tables of the locale, the canonical tables, the layout or the value of  *)
(* a call; a step of a call changes the cursors, the buffer and the result *)
(* of that call alone; and whatever the interleaving, a call returns what  *)
(* Translate returns for its arguments when it runs alone.                 *)
(***************************************************************************)

\* What a step of the concurrent calls leaves alone.
StepIsolated ==
    /\ shared' = shared
    /\ \A i \in Callers :
          /\ calls'[i].layout = calls[i].layout
          /\ calls'[i].value = calls[i].value
    /\ \E i \in Callers : \A j \in Callers \ {i} : calls'[j] = calls[j]

\* The call of caller i has returned what Translate returns alone.
ReturnedAsAlone(i) ==
    calls[i].pc = "returned" =>
        [out |-> calls[i].ret, err |-> calls[i].err]
            = Translate(calls[i].layout, calls[i].value, shared.lang)

C17_Concurrent ==
    /\ [][StepIsolated]_vars
    /\ [](shared.tables = TablesOf(shared.lang))
    /\ [](\A i \in Callers : ReturnedAsAlone(i))

\* Two calls with different arguments were under way together, and both
\* returned a translation.
C17_Witness ==
    /\ \A i \in Callers :
          /\ calls[i].pc = "returned"
          /\ calls[i].err = NilErr
          /\ calls[i].ret # calls[i].value
          /\ Len(calls[i].layout) > 3
    /\ calls[1].layout # calls[2].layout
    /\ calls[1].ret # calls[2].ret

\* Both calls are in the middle of their loops.
C17_WitnessInterleaved ==
    \A i \in Callers :
        /\ calls[i].pc = "loop"
        /\ calls[i].layoutOffset > 0
        /\ calls[i].layoutOffset < Len(calls[i].layout)
        /\ calls[i].sb # <<>>

(***************************************************************************)
(* C18: in the generated tables a locale inherits the entries of its       *)
(* parent.  For every emitted locale whose parent has data, an entry that  *)
(* the CLDR data of the locale itself does not define is the parent's      *)
(* entry at the same index, and an entry that it defines is the text it    *)
(* defines.                                                                *)
(***************************************************************************)

\* The texts the CLDR file of tag g holds for entry i of table f, whether
\* or not the generator takes them: the elements of that type in the list
\* of the table, for the day periods in the widths "abbreviated" and
\* "narrow".
OwnTexts(g, f, i) ==
    IF f = "dayPeriods"
    THEN {StripNNBSP(data[g].DayPeriodWidth[w].DayPeriod[k].CharData) :
            <<w, k>> \in {x \in (DOMAIN data[g].DayPeriodWidth) \X (1..4) :
                /\ data[g].DayPeriodWidth[x[1]].type \in {"abbreviated", "narrow"}
                /\ x[2] \in DOMAIN data[g].DayPeriodWidth[x[1]].DayPeriod
                /\ data[g].DayPeriodWidth[x[1]].DayPeriod[x[2]].type = i}}
    ELSE IF f \in {"shortMonth", "longMonth"}
    THEN {data[g][f][k].CharData :
            k \in {x \in DOMAIN data[g][f] : Atoi(data[g][f][x].type) = [n |-> i, err |-> NoError]}}
    ELSE {data[g][f][k].CharData : k \in {x \in DOMAIN data[g][f] : data[g][f][x].type = i}}

\* The table main would write for the data of the parent of tag g.
ParentTable(g) == appendTableVariable(localesData[Parent[g]])

\* The tables in F of every emitted locale whose parent has data hold, entry
\* by entry, the locale's own text where it defines one and the parent's
\* entry where it does not.
InheritsIn(F) ==
    gpc \in {"generated", "resolved"} =>
        \A g \in DOMAIN tables :
            (Parent[g] # "" /\ Parent[g] \in DOMAIN localesData) =>
                \A f \in F : \A i \in DOMAIN tables[g][f] :
                    IF OwnTexts(g, f, i) # {}
                    THEN tables[g][f][i] \in OwnTexts(g, f, i)
                    ELSE /\ i \in DOMAIN ParentTable(g)[f]
                         /\ tables[g][f][i] = ParentTable(g)[f][i]

C18_Inherits == InheritsIn(TableFields)

\* The tables of TestLocaleTableEn001Overrides and
\* TestLocaleTableEnAuOverrides, generated from the data of the tests.
C18_WitnessTests ==
    /\ gpc = "generated"
    /\ data = [g \in CldrTags |->
                 CASE g = "en" -> CalEn [] g = "en-001" -> Cal001
                   [] g = "en-AU" -> CalAU [] OTHER -> CalEs]
    /\ tables["en"] = [shortDay |-> shortDayNamesStd, longDay |-> longDayNamesStd,
                       shortMonth |-> shortMonthNamesStd, longMonth |-> longMonthNamesStd,
                       dayPeriods |-> dayPeriodsStd]
    /\ tables["en-001"] =
          [tables["en"] EXCEPT !.shortMonth[9] = <<83, 101, 112, 116>>,
                               !.dayPeriods = << <<97, 109>>, <<112, 109>> >>]
    /\ tables["en-AU"] =
          [tables["en-001"] EXCEPT !.shortMonth[6] = <<74, 117, 110, 101>>,
                                   !.shortMonth[7] = <<74, 117, 108, 121>>]
    /\ tables["es"] = [shortDay |-> EsShortDay, longDay |-> EsLongDay,
                       shortMonth |-> EsShortMonth, longMonth |-> EsLongMonth,
                       dayPeriods |-> EsDayPeriods]

(***************************************************************************)
(* C19: cursor advance on a translated token.  After an iteration that     *)
(* translated a token, the layout cursor has advanced by the length of the *)
(* token in the layout (3, 6, 7 or 2 bytes), the value cursor by the white *)
(* space bytes skipped plus the byte length of the local text matched, and *)
(* the output has grown by that white space and the canonical entry.       *)
(***************************************************************************)

\* The advance of the last iteration, the output having grown by the bytes
\* white and the canonical entry.
CursorAdvance(white) ==
    TokenTranslated =>
        LET k == TokenKindAt(layout, last.layoutOffset)
            at == last.valueOffset + LastSkipped
        IN  /\ k # ""
            /\ Len(TokenText(k)) \in {3, 6, 7, 2}
            /\ layoutOffset = last.layoutOffset + Len(TokenText(k))
            /\ \E i \in MatchingAt(LocaleTab(locale, k), at) :
                  /\ valueOffset = at + Len(LocaleTab(locale, k)[i])
                  /\ sb = last.sb \o white \o StdTab(k)[i]

C19_CursorAdvance ==
    CursorAdvance(Slice(value, last.valueOffset, last.valueOffset + LastSkipped))

\* The same advance, the output having grown by as many spaces as white
\* space bytes were skipped.
C19_AdvanceWithSpaces == CursorAdvance(Spaces(LastSkipped))

\* A token was translated after white space.
C19_Witness ==
    /\ TokenTranslated
    /\ LastSkipped > 0
    /\ layoutOffset = last.layoutOffset + 7
    /\ valueOffset > last.valueOffset + LastSkipped

(***************************************************************************)
(* C20: numeric padding markers.  Where the layout spells "_2" (not        *)
(* followed by "006"), "_2006" or "__2" and the value has as many bytes    *)
(* left as the marker is long, the iteration advances the layout cursor by *)
(* 2, 5 or 3, skips the white space of the value, consumes at most 2, 5 or *)
(* 3 bytes that are no white space (stopping before the next white space   *)
(* or at the end of the value), and writes the consumed bytes as they are. *)
(* Stated for the iterations that take one marker.                         *)
(***************************************************************************)

\* The last iteration started at a padding marker with enough value left,
\* and the second test of case '_' took nothing after it.
AtMarker ==
    /\ last.c = "_"
    /\ MarkerLenAt(layout, last.layoutOffset) > 0
    /\ Len(value) >= last.valueOffset + MarkerLenAt(layout, last.layoutOffset)
    /\ ~(SecondTestAfterMarker /\ LastAdvance = LastTokenLen + 3)

\* The marker was taken: the cursors moved as claimed, and the consumed
\* bytes were written as they are, after as many bytes as white space was
\* skipped.
MarkerTaken ==
    LET m == MarkerLenAt(layout, last.layoutOffset)
        at == last.valueOffset + LastSkipped
        consumed == valueOffset - at
    IN  /\ last.written
        /\ err = NilErr
        /\ layoutOffset = last.layoutOffset + m
        /\ consumed >= 0
        /\ consumed <= m
        /\ \A j \in (at + 1)..(at + consumed) : ~IsSpace(value[j])
        /\ \/ consumed = m
           \/ at + consumed = Len(value)
           \/ IsSpace(value[at + consumed + 1])
        /\ Len(sb) = Len(last.sb) + LastSkipped + consumed
        /\ SubSeq(sb, 1, Len(last.sb)) = last.sb
        /\ SubSeq(sb, Len(last.sb) + LastSkipped + 1, Len(sb))
             = Slice(value, at, at + consumed)

C20_PaddingMarkers == AtMarker => MarkerTaken

\* The same statement for the values without bytes >= 0x80.
C20_PaddingAscii ==
    (AtMarker /\ \A j \in 1..Len(value) : value[j] < 128) => MarkerTaken

\* A marker "_2" took two digits after white space.
C20_Witness ==
    /\ AtMarker
    /\ MarkerTaken
    /\ MarkerLenAt(layout, last.layoutOffset) = 2
    /\ LastSkipped > 0
    /\ valueOffset = last.valueOffset + LastSkipped + 2

\* A marker met a byte >= 0x80: what was written is not what was consumed.
C20_WitnessHighByte ==
    /\ AtMarker
    /\ ~MarkerTaken
    /\ value[last.valueOffset + LastSkipped + 1] >= 128

\* A marker "__2" consumed four bytes.
C20_WitnessBeyondMax ==
    /\ AtMarker
    /\ last.written
    /\ MarkerLenAt(layout, last.layoutOffset) = 3
    /\ valueOffset - (last.valueOffset + LastSkipped) = 4

(***************************************************************************)
(* C21: a padding marker never makes Translate fail.  No iteration that    *)
(* starts at '_' returns an error, the error of nextNonSpaceValue is never *)
(* returned (the call is made only with enough value bytes left), and      *)
(* where the layout spells "_2", "_2006" or "__2" and the value has fewer  *)
(* than 2, 5 or 3 bytes left, the switch writes nothing and the position   *)
(* is handled by the literal branch.                                       *)
(***************************************************************************)

\* The scanner state the last iteration started from.
LastSt ==
    [layoutOffset |-> last.layoutOffset, valueOffset |-> last.valueOffset,
     sb |-> last.sb, err |-> NilErr, written |-> FALSE]

\* The last iteration started at a padding marker with fewer value bytes
\* left than the marker is long.
MarkerShort ==
    /\ iter > 0
    /\ last.c = "_"
    /\ MarkerLenAt(layout, last.layoutOffset) > 0
    /\ Len(value) < last.valueOffset + MarkerLenAt(layout, last.layoutOffset)

\* The last iteration was the literal branch alone.
LiteralHandled ==
    /\ err = NilErr
    /\ ~last.written
    /\ St = WriteLiteral(value, LastSt)

C21_MarkerNeverFails ==
    /\ (iter > 0 /\ last.c = "_") => err = NilErr
    /\ err # NotFoundErr
    /\ \A max \in {2, 3, 5} :
          (pc = "loop" /\ Len(value) >= valueOffset + max)
              => nextNonSpaceValue(value, valueOffset, max).err = NilErr
    /\ MarkerShort => LiteralHandled

\* A marker "_2" met a value with one byte left, which the literal branch
\* copied.
C21_Witness ==
    /\ MarkerShort
    /\ MarkerLenAt(layout, last.layoutOffset) = 2
    /\ Len(value) = last.valueOffset + 1
    /\ valueOffset = last.valueOffset + 1
    /\ layoutOffset = last.layoutOffset + 1

\* The markers "_2006" and "__2" with too little value left.
C21_WitnessLongYear ==
    /\ MarkerShort
    /\ MarkerLenAt(layout, last.layoutOffset) = 5
    /\ Len(value) = last.valueOffset + 4

C21_WitnessThree ==
    /\ MarkerShort
    /\ MarkerLenAt(layout, last.layoutOffset) = 3
    /\ Len(value) = last.valueOffset + 2

\* A marker was taken on white space and digits, without an error.
C21_WitnessTaken ==
    /\ AtMarker
    /\ last.written
    /\ LastSkipped > 0
    /\ err = NilErr

(***************************************************************************)
(* C22: one token per iteration, classified at the layout cursor.  An      *)
(* iteration that starts at '_' and writes has a marker "_2", "_2006" or   *)
(* "__2" at the offset it started from and moves the layout cursor by the  *)
(* length of that marker; the handling of "__2" is applied to the three    *)
(* layout bytes '_', '_', '2' only.                                        *)
(***************************************************************************)

\* The last iteration started at '_' and the switch wrote.
MarkerStep == iter > 0 /\ last.c = "_" /\ last.written /\ err = NilErr

\* The layout offset at which the last iteration applied the handling of
\* "__2" (-1 when it did not): the offset it started from, or the offset
\* the first if statement of case '_' had advanced to.
ThreeByteAt ==
    LET m == MarkerLenAt(layout, last.layoutOffset)
    IN  IF ~MarkerStep THEN -1
        ELSE IF m = 3 /\ LastAdvance = 3 THEN last.layoutOffset
        ELSE IF m \in {2, 5} /\ LastAdvance = m + 3 THEN last.layoutOffset + m
        ELSE -1

C22_MarkerAtCursor ==
    /\ MarkerStep =>
          /\ MarkerLenAt(layout, last.layoutOffset) > 0
          /\ LastAdvance = MarkerLenAt(layout, last.layoutOffset)
    /\ ThreeByteAt >= 0 =>
          Slice(layout, ThreeByteAt, ThreeByteAt + 3) = <<95, 95, 50>>

\* What every iteration at '_' does: it writes only from a marker at the
\* offset it started from, and the handling of "__2" is applied at the
\* cursor to "__2", or, after a marker "_2" or "_2006" taken by the same
\* iteration, to three bytes of which the second and third are "_2".
C22_SecondTest ==
    /\ MarkerStep =>
          /\ MarkerLenAt(layout, last.layoutOffset) > 0
          /\ \/ LastAdvance = MarkerLenAt(layout, last.layoutOffset)
             \/ SecondTestAfterMarker /\ LastAdvance = LastTokenLen + 3
    /\ ThreeByteAt >= 0 =>
          /\ Slice(layout, ThreeByteAt + 1, ThreeByteAt + 3) = <<95, 50>>
          /\ ThreeByteAt = last.layoutOffset => layout[ThreeByteAt + 1] = 95

\* The handling of "__2" was applied to the bytes " _2", and to "T_2".
C22_WitnessSpace ==
    /\ ThreeByteAt >= 0
    /\ Slice(layout, ThreeByteAt, ThreeByteAt + 3) = <<32, 95, 50>>

C22_WitnessOtherBytes ==
    /\ ThreeByteAt >= 0
    /\ Slice(layout, ThreeByteAt, ThreeByteAt + 3) = <<84, 95, 50>>
    /\ valueOffset = last.valueOffset + 3

\* The call of the layout "_2T_2Jan" returned a mismatch for the month.
C22_WitnessMismatch ==
    /\ pc = "returned"
    /\ Len(layout) = 8
    /\ Slice(layout, 0, 5) = <<95, 50, 84, 95, 50>>
    /\ err = newLayoutMismatchError(Jan, value)

\* The handling of "__2" applied at the cursor to "__2".
C22_WitnessAtCursor ==
    /\ ThreeByteAt >= 0
    /\ ThreeByteAt = last.layoutOffset
    /\ valueOffset > last.valueOffset

(***************************************************************************)
(* C23: literal handling.  An iteration in which the switch wrote nothing  *)
(* moves the layout cursor by one and, if value bytes remain, appends the  *)
(* one byte at the value cursor to the output as it is and moves the value *)
(* cursor by one; with no value byte left it appends nothing.              *)
(***************************************************************************)

\* The last iteration was handled by the literal branch.
LiteralStep == iter > 0 /\ ~last.written /\ err = NilErr

\* The literal branch copied one byte as it is.
OneByteCopied ==
    /\ layoutOffset = last.layoutOffset + 1
    /\ IF Len(value) > last.valueOffset
       THEN /\ valueOffset = last.valueOffset + 1
            /\ sb = last.sb \o <<value[last.valueOffset + 1]>>
       ELSE /\ valueOffset \in {last.valueOffset, last.valueOffset + 1}
            /\ sb = last.sb

C23_LiteralByte == LiteralStep => OneByteCopied

\* The same statement for the value bytes below 0x80.
C23_LiteralAscii ==
    (LiteralStep /\ (Len(value) > last.valueOffset
                        => value[last.valueOffset + 1] < 128))
        => OneByteCopied

\* A literal byte below 0x80 was copied; and a layout byte met the end of
\* the value.
C23_Witness ==
    /\ LiteralStep
    /\ Len(value) > last.valueOffset
    /\ value[last.valueOffset + 1] < 128
    /\ OneByteCopied

C23_WitnessNoValue ==
    /\ LiteralStep
    /\ Len(value) = last.valueOffset
    /\ OneByteCopied

\* A byte >= 0x80 was handled by the literal branch: two bytes were written
\* and the value cursor moved by two.
C23_WitnessHighByte ==
    /\ LiteralStep
    /\ Len(value) > last.valueOffset
    /\ value[last.valueOffset + 1] = 195
    /\ sb = last.sb \o <<195, 131>>
    /\ valueOffset = last.valueOffset + 2

(***************************************************************************)
(* C24: tail preservation.  When the loop has ended and Translate returns  *)
(* without an error, the string returned is the builder's content followed *)
(* by every byte of the value from the final value cursor to its end.      *)
(***************************************************************************)

\* Translate returned without an error.
Succeeded == pc \in {"returned", "parsed"} /\ err = NilErr

\* The number of value bytes from the final value cursor on.
TailLen == IF Len(value) >= valueOffset THEN Len(value) - valueOffset ELSE 0

C24_TailKept ==
    Succeeded =>
        /\ layoutOffset >= Len(layout)
        /\ Len(ret) = Len(sb) + TailLen
        /\ \A j \in 1..Len(sb) : ret[j] = sb[j]
        /\ \A j \in 1..TailLen : ret[Len(sb) + j] = value[valueOffset + j]

\* A value with two bytes the layout does not describe was returned with
\* them, after a translated token.
C24_Witness ==
    /\ Succeeded
    /\ TokenTranslated
    /\ TailLen = 2
    /\ SubSeq(ret, Len(ret) - 1, Len(ret)) = <<122, 9>>

\* The value cursor had passed the end of the value: nothing was appended.
C24_WitnessPastEnd ==
    /\ Succeeded
    /\ valueOffset > Len(value)
    /\ ret = sb

(***************************************************************************)
(* C25: the tie-break of lookup.  When a token was translated, the entry   *)
(* taken is the one with the smallest table index among the longest        *)
(* entries that match the value at the cursor: of matching entries of      *)
(* equal length (duplicates, entries equal up to case) the first wins, and *)
(* only a strictly longer match replaces a match.                          *)
(***************************************************************************)

\* The index lookup settles on among the matching indices M of table tab:
\* the smallest index of an entry no shorter than any other matching one.
FirstLongest(tab, M) ==
    CHOOSE i \in M :
        /\ \A j \in M : Len(tab[j]) <= Len(tab[i])
        /\ \A j \in M : Len(tab[j]) = Len(tab[i]) => i <= j

C25_TieBreak ==
    TokenTranslated =>
        LET k == TokenKindAt(layout, last.layoutOffset)
            at == last.valueOffset + LastSkipped
            tab == LocaleTab(locale, k)
        IN  /\ MatchingAt(tab, at) # {}
            /\ valueOffset = at + Len(tab[FirstLongest(tab, MatchingAt(tab, at))])
            /\ sb = last.sb \o Spaces(LastSkipped)
                      \o StdTab(k)[FirstLongest(tab, MatchingAt(tab, at))]

\* Two entries of the same length matched, and the canonical entry of the
\* first was written, not that of the second; the text matched is txt.
TieTaken(txt) ==
    /\ TokenTranslated
    /\ LET k == TokenKindAt(layout, last.layoutOffset)
           at == last.valueOffset + LastSkipped
           tab == LocaleTab(locale, k)
       IN  \E i, j \in MatchingAt(tab, at) :
              /\ i < j
              /\ Len(tab[i]) = Len(tab[j])
              /\ Len(tab[i]) = Len(txt)
              /\ Slice(value, at, valueOffset) = txt
              /\ StdTab(k)[i] # StdTab(k)[j]
              /\ sb = last.sb \o Spaces(LastSkipped) \o StdTab(k)[i]

\* The duplicate entries "dup", "dup" of a short month table, and the
\* entries "W2", "w2" of a long day table for the value "w2".
C25_Witness == TieTaken(<<100, 117, 112>>)

C25_WitnessCase == TieTaken(<<119, 50>>)

(***************************************************************************)
(* C26: errors follow layout order.  When Translate has returned an error, *)
(* the error is that of the token at the layout offset the failing         *)
(* iteration started from, and every iteration before it went on without   *)
(* an error: at a token it matched the token against the value and wrote   *)
(* its canonical entry, and the layout bytes it passed otherwise hold no   *)
(* token.  So every token to the left of the failing one was matched, and  *)
(* no token to its right was looked at.                                    *)
(***************************************************************************)

\* The scanner state after the first n iterations of the call.
RECURSIVE ScanTo(_, _)
ScanTo(st, n) ==
    IF n = 0 THEN st ELSE ScanTo(LoopBody(layout, value, locale, st), n - 1)

ScanState(n) == ScanTo(Start, n)

\* The iteration from scanner state s to scanner state t translated the
\* token of kind k at the layout offset of s.
MatchedToken(s, t, k) ==
    /\ t.err = NilErr
    /\ t.written
    /\ Len(LocaleTab(locale, k)) > 0
    /\ t.layoutOffset = s.layoutOffset + Len(TokenText(k))
    /\ \E i \in MatchingAt(LocaleTab(locale, k), SkipSpaces(value, s.valueOffset)) :
          /\ t.valueOffset = SkipSpaces(value, s.valueOffset) + Len(LocaleTab(locale, k)[i])
          /\ t.sb = s.sb \o Spaces(SkipSpaces(value, s.valueOffset) - s.valueOffset)
                         \o StdTab(k)[i]

\* The iteration from s to t passed layout bytes that start no token.
NoTokenPassed(s, t) ==
    /\ t.err = NilErr
    /\ \A p \in s.layoutOffset..(t.layoutOffset - 1) : TokenKindAt(layout, p) = ""

PassedInOrder(s, t) ==
    /\ t.layoutOffset > s.layoutOffset
    /\ IF TokenKindAt(layout, s.layoutOffset) # ""
       THEN MatchedToken(s, t, TokenKindAt(layout, s.layoutOffset))
       ELSE NoTokenPassed(s, t)

\* The error is that of the token of kind k at offset at of the value.
ErrorOfToken(k, at) ==
    /\ k # ""
    /\ err.LayoutElem = TokenText(k)
    /\ IF Len(LocaleTab(locale, k)) = 0
       THEN err.kind = "ErrUnsupportedLayoutElem"
       ELSE /\ err.kind = "ErrLayoutMismatch"
            /\ MatchingAt(LocaleTab(locale, k), at) = {}

C26_ErrorsInLayoutOrder ==
    err # NilErr =>
        /\ pc # "loop"
        /\ iter >= 1
        /\ ScanState(iter - 1).layoutOffset = last.layoutOffset
        /\ ScanState(iter - 1).valueOffset = last.valueOffset
        /\ \A n \in 0..(iter - 2) : PassedInOrder(ScanState(n), ScanState(n + 1))
        /\ ErrorOfToken(TokenKindAt(layout, last.layoutOffset),
                        last.valueOffset + LastSkipped)

\* An unsupported token was reported after a token to its left had been
\* translated.
C26_Witness ==
    /\ err.kind = "ErrUnsupportedLayoutElem"
    /\ last.layoutOffset > 0
    /\ TokenKindAt(layout, 0) # ""
    /\ PassedInOrder(ScanState(0), ScanState(1))

\* The mismatch of the first token was reported although the layout holds,
\* to its right, a token the locale does not support.
C26_WitnessMismatchFirst ==
    /\ err.kind = "ErrLayoutMismatch"
    /\ err.LayoutElem = Monday
    /\ last.layoutOffset = 0
    /\ Len(layout) = 9
    /\ TokenKindAt(layout, 7) = "dayPeriods"
    /\ Len(DayPeriods(locale)) = 0

\* A mismatch was reported after a translated token.
C26_WitnessMismatchLater ==
    /\ err.kind = "ErrLayoutMismatch"
    /\ last.layoutOffset > 0
    /\ \E n \in 0..(iter - 2) : ScanState(n + 1).written

(***************************************************************************)
(* C27: cardinality of the generated data.  Every table the generator      *)
(* writes for a locale has no entry or the canonical number of entries (7  *)
(* day names, 12 month names, 2 day periods), entry i being the text the   *)
(* locale data holds for the i-th canonical key; a tag is written exactly  *)
(* when its locale data holds some table and every table it holds has the  *)
(* canonical size.                                                         *)
(***************************************************************************)

\* The canonical number of entries of a table, and the field of the
\* generator's locale data a table is written from.
CanonicalSize(f) ==
    CASE f \in {"shortDay", "longDay"} -> 7
      [] f \in {"shortMonth", "longMonth"} -> 12
      [] OTHER -> 2

DataField(g, f) ==
    CASE f = "shortDay" -> g.shortDayNames
      [] f = "longDay" -> g.longDayNames
      [] f = "shortMonth" -> g.shortMonthNames
      [] f = "longMonth" -> g.longMonthNames
      [] OTHER -> g.dayPeriods

\* The locale data g holds some table, and each table it holds has an entry
\* for every canonical key and for no other.
WellSized(g) ==
    /\ \E f \in TableFields : ~DataField(g, f).nil
    /\ \A f \in TableFields :
          \/ DataField(g, f).nil
          \/ DOMAIN DataField(g, f).m = 1..CanonicalSize(f)

C27_Cardinality ==
    gpc \in {"generated", "resolved"} =>
        /\ \A g \in DOMAIN tables :
              /\ g \in DOMAIN localesData
              /\ \E f \in TableFields : Len(tables[g][f]) > 0
              /\ \A f \in TableFields :
                    /\ Len(tables[g][f]) \in {0, CanonicalSize(f)}
                    /\ \A i \in 1..Len(tables[g][f]) :
                          /\ i \in DOMAIN DataField(localesData[g], f).m
                          /\ tables[g][f][i] = DataField(localesData[g], f).m[i]
        /\ \A g \in CldrTags :
              g \in DOMAIN tables <=>
                  (g \in DOMAIN localesData /\ WellSized(localesData[g]))

\* A locale was written with one table of canonical size and four empty
\* ones, while a locale with three long month names only was skipped.
C27_Witness ==
    /\ gpc = "generated"
    /\ "en-001" \in DOMAIN tables
    /\ Len(tables["en-001"].dayPeriods) = 2
    /\ \A f \in TableFields \ {"dayPeriods"} : Len(tables["en-001"][f]) = 0
    /\ "es" \in DOMAIN localesData
    /\ Cardinality(DOMAIN localesData["es"].longMonthNames.m) = 3
    /\ "es" \notin DOMAIN tables

\* A locale without any table was skipped; and one that holds a day table
\* without entries (its only day element has an unknown type).
C27_WitnessEmpty ==
    /\ gpc = "generated"
    /\ "en" \notin DOMAIN localesData
    /\ "en" \notin DOMAIN tables

C27_WitnessNoEntries ==
    /\ gpc = "generated"
    /\ "en-AU" \in DOMAIN localesData
    /\ ~localesData["en-AU"].shortDayNames.nil
    /\ DOMAIN localesData["en-AU"].shortDayNames.m = {}
    /\ "en-AU" \notin DOMAIN tables

\* All five tables of a locale were written in full.
C27_WitnessFull ==
    /\ gpc = "generated"
    /\ "es" \in DOMAIN tables
    /\ \A f \in TableFields : Len(tables["es"][f]) = CanonicalSize(f)
    /\ tables["es"].longMonth = EsLongMonth

\* The generator stopped at a month element whose type is no number
\* (log.Fatal), and at one whose number is no month (index out of range):
\* no table was written.
C27_WitnessFatal ==
    /\ gpc = "fatal"
    /\ data["es"] = CalMonthNoNumber
    /\ DOMAIN tables = {}

C27_WitnessPanic ==
    /\ gpc = "panic"
    /\ data["es"] \in {CalMonth13, CalMonth0}
    /\ DOMAIN tables = {}

(***************************************************************************)
(* C28: getSorted returns a topological order of the languages.  The       *)
(* result is a permutation of the tags added to the graph (each added tag  *)
(* once, no other tag) in which every tag comes after its parent, in       *)
(* whatever order the tags were added.                                     *)
(***************************************************************************)

\* The tags of the result, and the index of a tag in it.
SortedTags == {sortedLanguages[i] : i \in DOMAIN sortedLanguages}

IndexOf(tag) == CHOOSE i \in DOMAIN sortedLanguages : sortedLanguages[i] = tag

\* No tag comes twice, and every tag of the result comes after its parent
\* when the result holds the parent.
ParentsFirst ==
    /\ \A i, j \in DOMAIN sortedLanguages :
          i # j => sortedLanguages[i] # sortedLanguages[j]
    /\ \A g \in SortedTags :
          (g \in DOMAIN data /\ Parent[g] # "") =>
              /\ Parent[g] \in SortedTags
              /\ IndexOf(Parent[g]) < IndexOf(g)

C28_TopologicalOrder ==
    gpc = "sorted" =>
        /\ SortedTags = DOMAIN data
        /\ Len(sortedLanguages) = Cardinality(DOMAIN data)
        /\ ParentsFirst

\* What holds for every graph: parents first, every added tag once, and
\* besides the added tags only parents of added tags; a permutation of the
\* added tags when the parent of every added tag was added.
C28_OrderWithParents ==
    gpc = "sorted" =>
        /\ ParentsFirst
        /\ DOMAIN data \subseteq SortedTags
        /\ SortedTags \subseteq DOMAIN data \cup {Parent[g] : g \in DOMAIN data}
        /\ (\A g \in DOMAIN data : Parent[g] = "" \/ Parent[g] \in DOMAIN data)
              => /\ SortedTags = DOMAIN data
                 /\ Len(sortedLanguages) = Cardinality(DOMAIN data)

\* The tags en-AU, en-001, en were added in this order and came out as
\* en, en-001, en-AU.
C28_Witness ==
    /\ gpc = "sorted"
    /\ vertices = <<"en-AU", "en-001", "en">>
    /\ sortedLanguages = <<"en", "en-001", "en-AU">>

\* The result holds a tag that was not added: the parent of en-AU, for
\* which the archive has no file.
C28_WitnessNotAdded ==
    /\ gpc = "sorted"
    /\ vertices = <<"en-AU">>
    /\ sortedLanguages = <<"en-001", "en-AU">>

(***************************************************************************)
(* C29: index safety.  For a locale whose tables are empty or of canonical *)
(* size, every index and slice expression that an iteration of Translate   *)
(* (with lookup and nextNonSpaceValue) or its return evaluates is within   *)
(* the bounds of the layout, the value or the canonical table it reads,    *)
(* also when the value cursor has reached or passed the end of the value.  *)
(***************************************************************************)

\* The read r is within bounds.
InRange(r) == 0 <= r.from /\ r.from <= r.to /\ r.to <= r.len

\* The tables of the locale are empty or of canonical size.
CanonicalTables(loc) ==
    \A f \in TableFields : Len(LocaleTab(loc, f)) \in {0, CanonicalSize(f)}

\* The reads of the step the call takes next.
NextReads ==
    IF pc # "loop" THEN {}
    ELSE IF layoutOffset < Len(layout) THEN TranslateReads(layout, value, locale, St)
    ELSE FinishReads(value, St)

C29_IndexSafety ==
    CanonicalTables(locale) =>
        /\ layoutOffset >= 0
        /\ valueOffset >= 0
        /\ \A r \in NextReads : InRange(r)

\* A token is looked up with the value cursor past the end of the value:
\* lookup reads nothing.
C29_Witness ==
    /\ InLoop
    /\ CanonicalTables(locale)
    /\ valueOffset > Len(value)
    /\ TokenKindAt(layout, layoutOffset) = "shortMonth"
    /\ NextReads = {Rd("layout", layoutOffset, layoutOffset + 1, Len(layout)),
                    Rd("layout", layoutOffset, layoutOffset + 3, Len(layout)),
                    Rd("layout", layoutOffset + 3, Len(layout), Len(layout))}

\* The call returns with the value cursor past the end of the value, and
\* with the cursor at its end; an empty layout; a marker at the end of the
\* layout with the value used up.
C29_WitnessReturnPastEnd ==
    /\ pc = "loop"
    /\ layoutOffset >= Len(layout)
    /\ valueOffset > Len(value)
    /\ NextReads = {}

C29_WitnessEmpty ==
    /\ pc = "loop"
    /\ layout = <<>>
    /\ value = <<>>
    /\ NextReads = {Rd("value", 0, 0, 0)}

C29_WitnessMarkerAtEnd ==
    /\ InLoop
    /\ layout[layoutOffset + 1] = 95
    /\ Len(layout) = layoutOffset + 2
    /\ valueOffset >= Len(value)
    /\ Cardinality(NextReads) = 2

\* The last entry of a table matched: the last entry of the canonical
\* table is read.
C29_WitnessLastEntry ==
    /\ InLoop
    /\ Rd("stdTab", 1, 2, 2) \in NextReads

(***************************************************************************)
(* C30: empty table entries never count as a match.  When a token of a     *)
(* locale table of canonical size with some empty entries was reached and  *)
(* the value text at the cursor holds none of the non-empty entries,       *)
(* Translate fails with ErrLayoutMismatch.                                 *)
(***************************************************************************)

\* The last iteration was at a token of a table the locale supports; the
\* table, and the value offset its lookup compares at.
AtToken ==
    /\ last.c \in {"J", "M", "P"}
    /\ TokenKindAt(layout, last.layoutOffset) # ""
    /\ Len(LocaleTab(locale, TokenKindAt(layout, last.layoutOffset))) # 0

LastTab == LocaleTab(locale, TokenKindAt(layout, last.layoutOffset))

LastAt == last.valueOffset + LastSkipped

\* The indices of the empty entries of table tab.
EmptyEntries(tab) == {i \in 1..Len(tab) : tab[i] = <<>>}

\* The value at the cursor holds none of the non-empty entries of the table
\* of the last token, which has canonical size and some empty entry.
OnlyEmptyMatch ==
    /\ AtToken
    /\ Len(LastTab) = CanonicalSize(TokenKindAt(layout, last.layoutOffset))
    /\ EmptyEntries(LastTab) # {}
    /\ MatchingAt(LastTab, LastAt) \subseteq EmptyEntries(LastTab)

FailedMismatch == pc # "loop" /\ err # NilErr /\ err.kind = "ErrLayoutMismatch"

C30_EmptyNeverMatches == OnlyEmptyMatch => FailedMismatch

\* What the code does: with the cursor within the value the first empty
\* entry is taken, its canonical name written and no value byte consumed;
\* with the cursor past the end of the value, and for a table without empty
\* entries of which none matches, Translate fails with ErrLayoutMismatch.
C30_FirstEmptyTaken ==
    /\ OnlyEmptyMatch /\ LastAt <= Len(value) =>
          /\ err = NilErr
          /\ last.written
          /\ valueOffset = LastAt
          /\ sb = last.sb \o Spaces(LastSkipped)
                    \o StdTab(TokenKindAt(layout, last.layoutOffset))
                          [CHOOSE i \in EmptyEntries(LastTab) :
                              \A j \in EmptyEntries(LastTab) : i <= j]
    /\ OnlyEmptyMatch /\ LastAt > Len(value) => FailedMismatch
    /\ AtToken /\ MatchingAt(LastTab, LastAt) = {} => FailedMismatch

\* "January" was written for a value that holds text, none of it an entry
\* of the table, and the cursor did not move.
C30_Witness ==
    /\ OnlyEmptyMatch
    /\ err = NilErr
    /\ LastAt < Len(value)
    /\ valueOffset = last.valueOffset
    /\ sb = last.sb \o January

\* The same at the end of the value.
C30_WitnessEndOfValue ==
    /\ OnlyEmptyMatch
    /\ err = NilErr
    /\ LastAt = Len(value)
    /\ sb = last.sb \o Spaces(LastSkipped) \o January

\* A non-empty entry of the table with empty entries matched and was taken.
C30_WitnessNonEmpty ==
    /\ AtToken
    /\ EmptyEntries(LastTab) # {}
    /\ err = NilErr
    /\ valueOffset > LastAt

\* No entry of a table without empty entries matched: ErrLayoutMismatch.
C30_WitnessMismatch ==
    /\ AtToken
    /\ EmptyEntries(LastTab) = {}
    /\ MatchingAt(LastTab, LastAt) = {}
    /\ LastAt < Len(value)
    /\ FailedMismatch

====
